---- MODULE Spec2Model ----
(***************************************************************************)
(* A model of go-quake2: the visibility tree (bsptree.go), the lightmap    *)
(* atlas (render/lightmap.go), the surface builder (render/surface.go,     *)
(* render/q2bsp.go) and the render loop (main.go).                         *)
(*                                                                         *)
(* Go slices are 0-based and TLA+ sequences 1-based: At(s, i) is s[i].     *)
(* A Go map is a function whose DOMAIN is the set of keys present.         *)
(***************************************************************************)
EXTENDS Integers, Sequences, FiniteSets, TLC

VARIABLES
    mapData,           \* *q2file.MapData, as LoadQ2BSP returns it
    pc,                \* where the program is
    facesInCluster,    \* NewBSPTree: map[ClusterId][]int
    facesFromCluster,  \* getFacesFromCluster: the map being filled
    pvs,               \* getFacesFromCluster: the locals of the row being decoded
    treeLeaves,        \* BSPTree.TreeLeaves
    walk,              \* findLeafNode: its arguments, nodeId and its result
    atlas,             \* MapLightmap.Root, the tree of LightmapNode
    returned,          \* the rectangles AllocateLightmapRect has returned, in order
    lastAlloc,         \* the last call of AllocateLightmapRect and its result
    uploads,           \* the calls of updateSubTexture on the atlas texture, in order
    prevLeaf,          \* main: prevLeaf
    curLeaf,           \* main: curLeaf
    renderMap,         \* main: renderMap
    build,             \* CreateRenderingData: its locals while it runs
    frame,             \* the frame being drawn: where the camera is and what was done
    file,              \* the BSP file of the pak: its header and its lumps
    loaded,            \* initMesh: what LoadQ2BSPFromPAK returned
    goarch,            \* the architecture the program was built for
    lightmapData,      \* CopyMapLightmapToTexture: mapData.LightmapData
    copy,              \* CopyMapLightmapToTexture: its arguments and locals
    pixels,            \* CopyMapLightmapToTexture: pixels
    fan,               \* getAllFaceVertices: faceVertices as it returns them
    measure,           \* getLightmapDimensions: its arguments and what it returns
    handler,           \* InputHandler: the fields of the cursor
    mouse,             \* the positions glfw has reported and the changes the frames have read
    oldMapTextures     \* createTextureList: oldMapTextures, the slice that is mapTextures of main

treeVars == <<mapData, pc, facesInCluster, facesFromCluster, pvs, treeLeaves, walk>>

atlasVars == <<atlas, returned, lastAlloc>>

renderVars == <<uploads, prevLeaf, curLeaf, renderMap, build, frame, oldMapTextures>>

copyVars == <<lightmapData, copy, pixels>>

inputVars == <<handler, mouse>>

extraVars == <<fan, measure, inputVars>>

bootVars == <<file, loaded, goarch, copyVars, extraVars>>

vars == <<treeVars, atlasVars, renderVars, bootVars>>

------------------------------------------------------------------------------
(* Bounds of the model *)

\* BSP leaves of a generated level
MaxLeaves == 3
\* BSP nodes of a generated tree
MaxNodes == 2
\* calls of AllocateLightmapRect on one atlas
MaxAllocs == 4

\* the cursor positions reported by glfw and the frames of a run of the input
MaxEvents == 4

MaxFrames == 3

------------------------------------------------------------------------------
(* Helpers *)

At(s, i) == s[i + 1]

Range(s) == {s[i] : i \in 1..Len(s)}

EmptyMap == [x \in {} |-> <<>>]

RECURSIVE Perms(_)
\* All orders in which a Go map with key set S can be iterated
Perms(S) == IF S = {} THEN {<<>>} ELSE UNION {{<<x>> \o p : p \in Perms(S \ {x})} : x \in S}

InsertSorted(x, s) ==
    LET k == Cardinality({i \in 1..Len(s) : s[i] <= x})
    IN SubSeq(s, 1, k) \o <<x>> \o SubSeq(s, k + 1, Len(s))

RECURSIVE SortInts(_)
\* sort.Ints
SortInts(s) == IF s = <<>> THEN <<>> ELSE InsertSorted(Head(s), SortInts(Tail(s)))

RECURSIVE Pow2(_)
Pow2(n) == IF n = 0 THEN 1 ELSE 2 * Pow2(n - 1)

\* byte & (1 << bit) != 0
BitSet(byte, bit) == (byte \div Pow2(bit)) % 2 = 1

------------------------------------------------------------------------------
(* q2file: the types of the level data *)

clusterInvalidId == 65535

\* ClusterId(x): conversion to uint16
ClusterId(x) == x % 65536

\* type LeafFace int16: the two bytes of the leaf-face lump read as a signed value
LeafFace(raw) == IF raw >= 32768 THEN raw - 65536 ELSE raw

------------------------------------------------------------------------------
(* bsptree.go: NewBSPTree *)

\* getLeavesInCluster: the faces of one leaf, faces[offset] = int(leafFacesTable[first+offset])
LeafFaceList(md, leaf) ==
    [k \in 1..leaf.NumLeafFaces |-> LeafFace(At(md.LeafFaces, leaf.FirstLeafFace + (k - 1)))]

\* getLeavesInCluster: allLeaves
AllLeaves(md) ==
    [i \in 1..Len(md.BSPLeaves) |->
        [LeafIndex |-> i - 1, Faces |-> LeafFaceList(md, md.BSPLeaves[i])]]

\* getLeavesInCluster: leavesInCluster, each cluster's leaves in leaf order
LeavesInCluster(md) ==
    LET all == AllLeaves(md)
        cs  == {ClusterId(md.BSPLeaves[i].Cluster) : i \in 1..Len(md.BSPLeaves)}
        RECURSIVE Pick(_, _)
        Pick(c, i) ==
            IF i > Len(all) THEN <<>>
            ELSE (IF ClusterId(md.BSPLeaves[i].Cluster) = c THEN <<all[i]>> ELSE <<>>)
                 \o Pick(c, i + 1)
    IN [c \in cs |-> Pick(c, 1)]

\* a copy that stops one element early
getFaceIdsFromFacesShort(faces) == [i \in 1..(Len(faces) - 1) |-> faces[i]]

\* getFaceIdsFromFaces: a copy of the slice
getFaceIdsFromFaces(faces) == [i \in 1..Len(faces) |-> faces[i]]

\* getUniqueFacesFromVisibleFaces: the key set of the map[int]bool
getUniqueFacesFromVisibleFaces(visibleFaces) == Range(visibleFaces)

\* getFaceIdsFromUniqueFaces: the keys in one of Go's map iteration orders
getFaceIdsFromUniqueFaces(uniqueFaces) == Perms(uniqueFaces)

RECURSIVE ConcatLeafFaces(_, _)
\* getFacesInCluster: visibleFaces of one cluster, the leaves' faces appended in turn
ConcatLeafFaces(leaves, i) ==
    IF i > Len(leaves) THEN <<>>
    ELSE getFaceIdsFromFaces(leaves[i].Faces) \o ConcatLeafFaces(leaves, i + 1)

\* getFacesInCluster: every result the function can return
getFacesInCluster(leavesInCluster) ==
    {f \in [DOMAIN leavesInCluster -> UNION {getFaceIdsFromUniqueFaces(
                getUniqueFacesFromVisibleFaces(ConcatLeafFaces(leavesInCluster[c], 1)))
                    : c \in DOMAIN leavesInCluster}] :
        \A c \in DOMAIN leavesInCluster :
            f[c] \in getFaceIdsFromUniqueFaces(
                getUniqueFacesFromVisibleFaces(ConcatLeafFaces(leavesInCluster[c], 1)))}

\* a start of the decoding that does not copy the cluster's own faces
PvsStartWithoutOwnFaces(md, fic, cluster) ==
    [cluster           |-> cluster,
     visibleFaces      |-> <<>>,
     v                 |-> At(md.VisibilityOffsets, cluster),
     otherClusterIndex |-> 0]

\* getFacesFromCluster: the locals when the decoding of a cluster's row starts
PvsStart(md, fic, cluster) ==
    [cluster           |-> cluster,
     visibleFaces      |-> getFaceIdsFromFaces(fic[cluster]),
     v                 |-> At(md.VisibilityOffsets, cluster),
     otherClusterIndex |-> 0]

numClusters(md) == Len(md.VisibilityOffsets)

\* a zero-run branch that counts the zero byte itself as one more run of 8
PvsZeroRunOneMore(md, st) ==
    [st EXCEPT !.otherClusterIndex = st.otherClusterIndex + 8 * (md.VisibilityData[st.v + 1] + 1),
               !.v = (st.v + 1) + 1]

\* a zero-run branch that skips 16 clusters for each byte of the run
PvsZeroRunTwice(md, st) ==
    [st EXCEPT !.otherClusterIndex = st.otherClusterIndex + 16 * md.VisibilityData[st.v + 1],
               !.v = (st.v + 1) + 1]

\* getFacesFromCluster: the branch of a zero byte
PvsZeroRun(md, st) ==
    [st EXCEPT !.otherClusterIndex = st.otherClusterIndex + 8 * md.VisibilityData[st.v + 1],
               !.v = (st.v + 1) + 1]

RECURSIVE PvsBitsFromTop(_, _, _, _)
\* a loop over the bits that takes bit 7 for the first cluster
PvsBitsFromTop(md, fic, st, bit) ==
    IF bit >= 8 THEN st
    ELSE LET c == ClusterId(st.otherClusterIndex)
             clusterExists == c \in DOMAIN fic
             seen == IF BitSet(md.VisibilityData[st.v], 7 - bit) /\ clusterExists
                     THEN st.visibleFaces \o getFaceIdsFromFaces(fic[c])
                     ELSE st.visibleFaces
         IN PvsBitsFromTop(md, fic,
                    [st EXCEPT !.visibleFaces = seen,
                               !.otherClusterIndex = st.otherClusterIndex + 1],
                    bit + 1)

RECURSIVE PvsBits(_, _, _, _)
\* getFacesFromCluster: the loop over the 8 bits of a non-zero byte
PvsBits(md, fic, st, bit) ==
    IF bit >= 8 THEN st
    ELSE LET c == ClusterId(st.otherClusterIndex)
             clusterExists == c \in DOMAIN fic
             seen == IF BitSet(md.VisibilityData[st.v], bit) /\ clusterExists
                     THEN st.visibleFaces \o getFaceIdsFromFaces(fic[c])
                     ELSE st.visibleFaces
         IN PvsBits(md, fic,
                    [st EXCEPT !.visibleFaces = seen,
                               !.otherClusterIndex = st.otherClusterIndex + 1],
                    bit + 1)

\* getFacesFromCluster: the branch of a non-zero byte
PvsLiteral(md, fic, st) ==
    LET after == PvsBits(md, fic, st, 0)
    IN [after EXCEPT !.v = st.v + 1]

\* getFacesFromCluster: one iteration of the decompression loop
PvsIteration(md, fic, st) ==
    IF md.VisibilityData[st.v] = 0 THEN PvsZeroRun(md, st) ELSE PvsLiteral(md, fic, st)

\* getFacesFromCluster: the loop condition
PvsMore(md, st) == st.otherClusterIndex < numClusters(md)

\* a list that is sorted with the faces seen more than once left in
PvsResultKeepDuplicates(st) == {SortInts(st.visibleFaces)}

\* getFacesFromCluster: the sorted list stored for the cluster (whatever order the
\* map of unique faces is iterated in, sort.Ints gives this)
PvsResult(st) ==
    LET uniqueFaces == getUniqueFacesFromVisibleFaces(st.visibleFaces)
    IN {SortInts(ids) : ids \in getFaceIdsFromUniqueFaces(uniqueFaces)}

RECURSIVE PvsLoop(_, _, _)
\* getFacesFromCluster: the decompression loop of one row, run to its end
PvsLoop(md, fic, st) ==
    IF PvsMore(md, st) THEN PvsLoop(md, fic, PvsIteration(md, fic, st)) ELSE st

\* a missing key of a map[ClusterId][]int reads as the nil slice
MapGet(m, k) == IF k \in DOMAIN m THEN m[k] ELSE <<>>

\* getTreeLeaves with the leaves of the sentinel cluster left as getLeavesInCluster made them
getTreeLeavesKeepOwn(md, ffc) ==
    [i \in 1..Len(md.BSPLeaves) |->
        LET c == ClusterId(md.BSPLeaves[i].Cluster)
        IN IF c # clusterInvalidId
           THEN [LeafIndex |-> i - 1, Faces |-> MapGet(ffc, c)]
           ELSE AllLeaves(md)[i]]

\* getTreeLeaves
getTreeLeaves(md, ffc) ==
    [i \in 1..Len(md.BSPLeaves) |->
        LET c == ClusterId(md.BSPLeaves[i].Cluster)
        IN IF c # clusterInvalidId
           THEN [LeafIndex |-> i - 1, Faces |-> MapGet(ffc, c)]
           ELSE [LeafIndex |-> i - 1, Faces |-> <<>>]]

\* getFacesFromCluster, run whole: the sentinel cluster is skipped
getFacesFromCluster(md, fic) ==
    [c \in DOMAIN fic \ {clusterInvalidId} |->
        LET st == PvsLoop(md, fic, PvsStart(md, fic, c))
        IN SortInts(CHOOSE ids \in getFaceIdsFromUniqueFaces(
                        getUniqueFacesFromVisibleFaces(st.visibleFaces)) : TRUE)]

\* NewBSPTree, run whole: TreeLeaves (the order in which the maps are iterated
\* does not reach the result: every list is deduplicated and sorted)
NewBSPTree(md) ==
    LET lic == LeavesInCluster(md)
        fic == [c \in DOMAIN lic |->
                    CHOOSE ids \in getFaceIdsFromUniqueFaces(
                        getUniqueFacesFromVisibleFaces(ConcatLeafFaces(lic[c], 1))) : TRUE]
    IN getTreeLeaves(md, getFacesFromCluster(md, fic))

------------------------------------------------------------------------------
(* bsptree.go: findLeafNode *)

\* the signed distance d of position to the node's plane
PlaneDistance(md, node, position) ==
    LET plane == At(md.Planes, node.Plane)
    IN IF plane.Type < 3
       THEN At(position, plane.Type) - plane.Distance
       ELSE (position[1] * plane.Normal[1] + position[2] * plane.Normal[2]
             + position[3] * plane.Normal[3]) - plane.Distance

\* a walk that takes the back child of a position on the plane as well
WalkChildOnPlaneBack(md, nodeId, position) ==
    LET node == At(md.Nodes, nodeId)
    IN IF PlaneDistance(md, node, position) <= 0 THEN node.BackChild ELSE node.FrontChild

\* one iteration of the walk: the child the walk descends to
WalkChild(md, nodeId, position) ==
    LET node == At(md.Nodes, nodeId)
    IN IF PlaneDistance(md, node, position) < 0 THEN node.BackChild ELSE node.FrontChild

\* a decoding of the leaf reference that forgets the + 1
LeafIndexOfNoOffset(nodeId) == -nodeId

\* the index into TreeLeaves of a negative node id
LeafIndexOf(nodeId) == -(nodeId + 1)

\* getFacesFromCluster is not running
NoPvs == [cluster |-> -1, visibleFaces |-> <<>>, v |-> 0, otherClusterIndex |-> 0]

\* findLeafNode has not been called
NoWalk ==
    [startNode |-> 0, position |-> <<0, 0, 0>>, nodeId |-> 0,
     leaf |-> [LeafIndex |-> -1, Faces |-> <<>>]]

------------------------------------------------------------------------------
(* render/lightmap.go: the atlas *)

LIGHTMAP_SIZE == 512

\* NewLightmap: Root
NewLightmapRoot ==
    [X |-> 0, Y |-> 0, Width |-> LIGHTMAP_SIZE, Height |-> LIGHTMAP_SIZE,
     Nodes |-> <<>>, Filled |-> FALSE]

\* a check that forgets the nodes already used
AllocFailsIgnoreFilled(node, width, height) ==
    node.Width < width \/ node.Height < height

\* a check that takes a used node of exactly the size asked for as free
AllocFailsReclaim(node, width, height) ==
    \/ (node.Filled /\ ~(node.Width = width /\ node.Height = height))
    \/ node.Width < width \/ node.Height < height

\* AllocateLightmapRect: a node without children that is used or too small
AllocFails(node, width, height) ==
    \/ node.Filled
    \/ node.Width < width \/ node.Height < height

\* a perfect fit that looks at the width only
AllocFitsWidthOnly(node, width, height) == node.Width = width

\* AllocateLightmapRect: the perfect fit
AllocFits(node, width, height) == node.Width = width /\ node.Height = height

\* a split whose second child starts at the parent's corner
SplitNodesNoOffset(node, width, height) ==
    IF (node.Width - width) > (node.Height - height)
    THEN <<[X |-> node.X, Y |-> node.Y, Width |-> width, Height |-> node.Height,
            Nodes |-> <<>>, Filled |-> FALSE],
           [X |-> node.X, Y |-> node.Y, Width |-> node.Width - width,
            Height |-> node.Height, Nodes |-> <<>>, Filled |-> FALSE]>>
    ELSE <<[X |-> node.X, Y |-> node.Y, Width |-> node.Width, Height |-> height,
            Nodes |-> <<>>, Filled |-> FALSE],
           [X |-> node.X, Y |-> node.Y, Width |-> node.Width,
            Height |-> node.Height - height, Nodes |-> <<>>, Filled |-> FALSE]>>

\* a split that goes by the width when the slack is the same both ways
SplitNodesWidthOnTie(node, width, height) ==
    IF (node.Width - width) >= (node.Height - height)
    THEN <<[X |-> node.X, Y |-> node.Y, Width |-> width, Height |-> node.Height,
            Nodes |-> <<>>, Filled |-> FALSE],
           [X |-> node.X + width, Y |-> node.Y, Width |-> node.Width - width,
            Height |-> node.Height, Nodes |-> <<>>, Filled |-> FALSE]>>
    ELSE <<[X |-> node.X, Y |-> node.Y, Width |-> node.Width, Height |-> height,
            Nodes |-> <<>>, Filled |-> FALSE],
           [X |-> node.X, Y |-> node.Y + height, Width |-> node.Width,
            Height |-> node.Height - height, Nodes |-> <<>>, Filled |-> FALSE]>>

\* AllocateLightmapRect: the two children a node is split into
SplitNodes(node, width, height) ==
    IF (node.Width - width) > (node.Height - height)
    THEN <<[X |-> node.X, Y |-> node.Y, Width |-> width, Height |-> node.Height,
            Nodes |-> <<>>, Filled |-> FALSE],
           [X |-> node.X + width, Y |-> node.Y, Width |-> node.Width - width,
            Height |-> node.Height, Nodes |-> <<>>, Filled |-> FALSE]>>
    ELSE <<[X |-> node.X, Y |-> node.Y, Width |-> node.Width, Height |-> height,
            Nodes |-> <<>>, Filled |-> FALSE],
           [X |-> node.X, Y |-> node.Y + height, Width |-> node.Width,
            Height |-> node.Height - height, Nodes |-> <<>>, Filled |-> FALSE]>>

\* a refusal that leaves its mark on the node it refuses
AllocNilMarked(node) == [ok |-> FALSE, path |-> <<>>, node |-> [node EXCEPT !.Filled = TRUE]]

\* AllocateLightmapRect: return nil, the node as it was
AllocNil(node) == [ok |-> FALSE, path |-> <<>>, node |-> node]

RECURSIVE AllocateLightmapRectSecondChildFirst(_, _, _)
\* a search that tries child 1 of a node before child 0
AllocateLightmapRectSecondChildFirst(node, width, height) ==
    IF Len(node.Nodes) > 0
    THEN LET r1 == AllocateLightmapRectSecondChildFirst(node.Nodes[2], width, height)
             n1 == [node EXCEPT !.Nodes[2] = r1.node]
         IN IF r1.ok
            THEN [ok |-> TRUE, path |-> <<1>> \o r1.path, node |-> n1]
            ELSE LET r0 == AllocateLightmapRectSecondChildFirst(n1.Nodes[1], width, height)
                 IN [ok |-> r0.ok,
                     path |-> IF r0.ok THEN <<0>> \o r0.path ELSE <<>>,
                     node |-> [n1 EXCEPT !.Nodes[1] = r0.node]]
    ELSE IF AllocFails(node, width, height) THEN AllocNil(node)
    ELSE IF AllocFits(node, width, height)
         THEN [ok |-> TRUE, path |-> <<>>, node |-> [node EXCEPT !.Filled = TRUE]]
    ELSE LET split == [node EXCEPT !.Nodes = SplitNodes(node, width, height)]
             r0 == AllocateLightmapRectSecondChildFirst(split.Nodes[1], width, height)
         IN [ok |-> r0.ok,
             path |-> IF r0.ok THEN <<0>> \o r0.path ELSE <<>>,
             node |-> [split EXCEPT !.Nodes[1] = r0.node]]

RECURSIVE AllocateLightmapRect(_, _, _)
\* AllocateLightmapRect: ok and path say which node is returned (nil: ok is FALSE;
\* path: the child taken at each level, from the node given), node is the node
\* given as the call leaves it
AllocateLightmapRect(node, width, height) ==
    IF Len(node.Nodes) > 0
    THEN LET r0 == AllocateLightmapRect(node.Nodes[1], width, height)
             n0 == [node EXCEPT !.Nodes[1] = r0.node]
         IN IF r0.ok
            THEN [ok |-> TRUE, path |-> <<0>> \o r0.path, node |-> n0]
            ELSE LET r1 == AllocateLightmapRect(n0.Nodes[2], width, height)
                 IN [ok |-> r1.ok,
                     path |-> IF r1.ok THEN <<1>> \o r1.path ELSE <<>>,
                     node |-> [n0 EXCEPT !.Nodes[2] = r1.node]]
    ELSE IF AllocFails(node, width, height) THEN AllocNil(node)
    ELSE IF AllocFits(node, width, height)
         THEN [ok |-> TRUE, path |-> <<>>, node |-> [node EXCEPT !.Filled = TRUE]]
    ELSE LET split == [node EXCEPT !.Nodes = SplitNodes(node, width, height)]
             r0 == AllocateLightmapRect(split.Nodes[1], width, height)
         IN [ok |-> r0.ok,
             path |-> IF r0.ok THEN <<0>> \o r0.path ELSE <<>>,
             node |-> [split EXCEPT !.Nodes[1] = r0.node]]

RECURSIVE NodeAt(_, _)
\* the node a returned pointer points at
NodeAt(node, path) ==
    IF path = <<>> THEN node ELSE NodeAt(node.Nodes[Head(path) + 1], Tail(path))

\* the rectangle of a node
RectOf(node) == [X |-> node.X, Y |-> node.Y, Width |-> node.Width, Height |-> node.Height]

RECURSIVE NodesOf(_)
\* every node of the tree under (and with) a node
NodesOf(node) ==
    {node} \cup UNION {NodesOf(node.Nodes[i]) : i \in 1..Len(node.Nodes)}

------------------------------------------------------------------------------
(* SpecAtlas: AllocateLightmapRect called again and again on one atlas *)

\* the requests: the whole atlas, halves, quarters, strips, single texels, a
\* rectangle wider than the atlas
Requests ==
    {<<512, 512>>, <<256, 512>>, <<512, 256>>, <<256, 256>>, <<300, 300>>,
     <<511, 1>>, <<1, 511>>, <<1, 1>>, <<17, 9>>, <<513, 1>>}

NoAlloc == [width |-> 0, height |-> 0, ok |-> FALSE, path |-> <<>>]

AtlasIdle ==
    /\ atlas = NewLightmapRoot
    /\ returned = <<>>
    /\ lastAlloc = NoAlloc

\* var renderMap render.RenderMap: the zero value. The pointer MapLightmap is
\* held as a sequence: <<>> is nil, <<m>> points at m
NoRenderMap == [MapLightmap |-> <<>>, MapTextures |-> <<>>, VertexBuffer |-> <<>>]

\* CreateRenderingData is not running
NoBuild == [faceIds |-> <<>>, next |-> 0, surfacesByTexture |-> EmptyMap, last |-> "none"]

\* the loop has not run yet
NoFrame == [position |-> <<0, 0, 0>>, located |-> -1, prev |-> -1, rebuilt |-> FALSE]

\* no file is being read
NoFile == [Readable |-> TRUE, Magic |-> <<>>, Version |-> 0, Lumps |-> <<>>]

\* LoadQ2BSPFromPAK has not been called. A pointer is held as a sequence: <<>>
\* is nil; the error "nil" is no error
NoLoad == [mapData |-> <<>>, err |-> "nil"]

\* CopyMapLightmapToTexture is not running
NoCopy ==
    [arrayOffset |-> 0, totalPixels |-> 0, i |-> 0, baseIndexRead |-> 0, curByteWrite |-> 0,
     r |-> 0, g |-> 0, b |-> 0]

CopyIdle ==
    /\ lightmapData = <<>>
    /\ copy = NoCopy
    /\ pixels = <<>>

\* getLightmapDimensions has not been called
NoMeasure == [faceVertices |-> <<>>, texInfo |-> <<>>, lightmapDimensions |-> <<>>]

\* NewInputHandler: the fields of the cursor; a Vec2 is zero when made
NewInputHandler ==
    [firstCursorAction    |-> FALSE,
     cursor               |-> <<0, 0>>,
     cursorChange         |-> <<0, 0>>,
     cursorLast           |-> <<0, 0>>,
     bufferedCursorChange |-> <<0, 0>>]

\* no position has been reported by glfw: last is the position the next change
\* is counted from, pending the changes since the last updateCursor, deltas
\* all changes, reported what GetCursorChange returned frame by frame
NoMouse == [last |-> <<0, 0>>, pending |-> <<>>, deltas |-> <<>>, reported |-> <<>>]

\* no event is looked at
InputIdle ==
    /\ handler = NewInputHandler
    /\ mouse = NoMouse

\* getAllFaceVertices, getLightmapDimensions and the input are not looked at
\* on their own
ExtraIdle ==
    /\ fan = <<>>
    /\ measure = NoMeasure
    /\ InputIdle

\* the file is not looked at, no lightmap is copied
BootIdle ==
    /\ file = NoFile
    /\ loaded = NoLoad
    /\ CopyIdle
    /\ ExtraIdle

\* main before the loop: prevLeaf := -1, curLeaf := 0
RenderIdle ==
    /\ uploads = <<>>
    /\ prevLeaf = -1
    /\ curLeaf = 0
    /\ renderMap = NoRenderMap
    /\ build = NoBuild
    /\ frame = NoFrame
    /\ oldMapTextures = <<>>

InitAtlas ==
    /\ mapData = [NumFaces |-> 0]
    /\ pc = "atlas"
    /\ facesInCluster = EmptyMap
    /\ facesFromCluster = EmptyMap
    /\ pvs = NoPvs
    /\ treeLeaves = <<>>
    /\ walk = NoWalk
    /\ AtlasIdle
    /\ RenderIdle
    /\ BootIdle
    /\ goarch = "amd64"

\* a call AllocateLightmapRect(&lightmap.Root, width, height)
Allocate(width, height) ==
    LET r == AllocateLightmapRect(atlas, width, height)
    IN /\ atlas' = r.node
       /\ lastAlloc' = [width |-> width, height |-> height, ok |-> r.ok, path |-> r.path]
       /\ returned' = IF r.ok THEN Append(returned, RectOf(NodeAt(r.node, r.path)))
                                ELSE returned

AllocateOk ==
    /\ pc = "atlas"
    /\ Len(returned) < MaxAllocs
    /\ \E req \in Requests :
            /\ AllocateLightmapRect(atlas, req[1], req[2]).ok
            /\ Allocate(req[1], req[2])
    /\ UNCHANGED <<treeVars, renderVars, bootVars>>

AllocateNil ==
    /\ pc = "atlas"
    /\ \E req \in Requests :
            /\ ~AllocateLightmapRect(atlas, req[1], req[2]).ok
            /\ Allocate(req[1], req[2])
    /\ UNCHANGED <<treeVars, renderVars, bootVars>>

NextAtlas == AllocateOk \/ AllocateNil

SpecAtlas == InitAtlas /\ [][NextAtlas]_vars

------------------------------------------------------------------------------
(* Levels: the MapData of well-formed BSP files *)

\* The visibility lump starts with the cluster count (4 bytes) and one
\* VisibilityOffset (8 bytes) per cluster; Pvs offsets count from the lump's start
VisHeader(n) == 4 + 8 * n

\* the lump's bytes after the header, as VisibilityData reads them
VisData(n, flat) == [o \in VisHeader(n)..(VisHeader(n) + Len(flat) - 1) |-> flat[o - VisHeader(n) + 1]]

RECURSIVE Flatten(_)
Flatten(rows) == IF rows = <<>> THEN <<>> ELSE Head(rows) \o Flatten(Tail(rows))

\* one row per cluster, stored one after the other
RowOffsets(n, rows) == [c \in 1..n |-> VisHeader(n) + Len(Flatten(SubSeq(rows, 1, c - 1)))]

\* the compressed rows of a level of n <= 8 clusters: one literal byte whose
\* bits beyond the cluster count are clear, or a run of one zero byte
RowsOf(n) == {<<b>> : b \in 1..(Pow2(n) - 1)} \cup {<<0, 1>>}

\* a chain of splitting planes x = 0, x = 1, ...: leaf i lies behind plane i
ChainNodes(L) ==
    IF L = 1 THEN <<[Plane |-> 0, FrontChild |-> -1, BackChild |-> -1]>>
    ELSE [i \in 1..(L - 1) |->
            [Plane |-> i - 1,
             FrontChild |-> IF i = L - 1 THEN -L ELSE i,
             BackChild |-> -i]]

ChainPlanes(L) ==
    [i \in 1..(IF L = 1 THEN 1 ELSE L - 1) |->
        [Type |-> 0, Normal |-> <<1, 0, 0>>, Distance |-> i - 1]]

\* the leaf-face lump of the generated levels: faces 0, 1, 2, 0, 1, ...
FaceTable(len, numFaces) == [k \in 1..len |-> (k - 1) % numFaces]

\* the i-th leaf (i = 1, 2, ...) lists 2, 1, 0, 2, ... faces from entry i - 1 on,
\* so that leaves share faces and some leaf is empty
LeafOf(i, cluster) ==
    [Cluster |-> cluster, FirstLeafFace |-> i - 1, NumLeafFaces |-> (2 * i) % 3]

\* levels of up to MaxLeaves leaves in 1 or 2 clusters, every row well formed
SmallLevels ==
    {[NumFaces |-> 3,
      BSPLeaves |-> [i \in 1..L |-> LeafOf(i, cl[i])],
      LeafFaces |-> FaceTable(L + 3, 3),
      VisibilityOffsets |-> RowOffsets(n, rows),
      VisibilityData |-> VisData(n, Flatten(rows)),
      Nodes |-> ChainNodes(L),
      Planes |-> ChainPlanes(L)] :
        <<L, n, cl, rows>> \in
            UNION {UNION {{<<L0, n0, cl0, rows0>> :
                            cl0 \in [1..L0 -> (0..(n0 - 1)) \cup {clusterInvalidId}],
                            rows0 \in [1..n0 -> RowsOf(n0)]}
                        : n0 \in 1..2}
                    : L0 \in 1..MaxLeaves}}

\* levels of 32 clusters whose rows all are the bytes 0x00 0x03 0x01
RunLengthLevels ==
    {[NumFaces |-> 3,
      BSPLeaves |-> [i \in 1..MaxLeaves |-> LeafOf(i, cl[i])],
      LeafFaces |-> FaceTable(MaxLeaves + 3, 3),
      VisibilityOffsets |-> [c \in 1..32 |-> VisHeader(32)],
      VisibilityData |-> VisData(32, <<0, 3, 1>>),
      Nodes |-> ChainNodes(MaxLeaves),
      Planes |-> ChainPlanes(MaxLeaves)] :
        cl \in [1..MaxLeaves -> {0, 23, 24, 25, clusterInvalidId}]}

\* the rows of 9 clusters (2 bytes when expanded), literal bytes and runs mixed;
\* of the second byte only bit 0, cluster 8, belongs to the row
WideRows == {<<1, 1>>, <<255, 1>>, <<0, 1, 1>>, <<1, 0, 1>>, <<0, 2>>}

\* levels of 9 clusters with leaves in clusters 0 and 8
WideLevels ==
    {[NumFaces |-> 3,
      BSPLeaves |-> [i \in 1..MaxLeaves |-> LeafOf(i, cl[i])],
      LeafFaces |-> FaceTable(MaxLeaves + 3, 3),
      VisibilityOffsets |-> [c \in 1..9 |-> VisHeader(9) + (IF c = 9 THEN Len(r0) ELSE 0)],
      VisibilityData |-> VisData(9, r0 \o r8),
      Nodes |-> ChainNodes(MaxLeaves),
      Planes |-> ChainPlanes(MaxLeaves)] :
        <<cl, r0, r8>> \in [1..MaxLeaves -> {0, 8, clusterInvalidId}] \X WideRows \X WideRows}

\* levels of more than 32767 faces: the leaf-face lump holds face numbers up to 65535
LargeLevels ==
    {[NumFaces |-> 65536,
      BSPLeaves |-> [i \in 1..2 |-> [Cluster |-> cl[i], FirstLeafFace |-> i - 1, NumLeafFaces |-> 2]],
      LeafFaces |-> <<32767, 32768, 65535>>,
      VisibilityOffsets |-> <<VisHeader(1)>>,
      VisibilityData |-> VisData(1, <<1>>),
      Nodes |-> ChainNodes(2),
      Planes |-> ChainPlanes(2)] :
        cl \in [1..2 -> {0, clusterInvalidId}]}

TreeLevels == SmallLevels \cup RunLengthLevels \cup WideLevels \cup LargeLevels

------------------------------------------------------------------------------
(* SpecTree: NewBSPTree step by step *)

InitTree ==
    /\ mapData \in TreeLevels
    /\ pc = "loaded"
    /\ facesInCluster = EmptyMap
    /\ facesFromCluster = EmptyMap
    /\ pvs = NoPvs
    /\ treeLeaves = <<>>
    /\ walk = NoWalk
    /\ AtlasIdle
    /\ RenderIdle
    /\ BootIdle
    /\ goarch = "amd64"

\* NewBSPTree: getLeavesInCluster and getFacesInCluster
GetFacesInCluster ==
    /\ pc = "loaded"
    /\ facesInCluster' \in getFacesInCluster(LeavesInCluster(mapData))
    /\ pc' = "clusters"
    /\ UNCHANGED <<mapData, facesFromCluster, pvs, treeLeaves, walk>>
    /\ UNCHANGED <<atlasVars, renderVars, bootVars>>

\* getFacesFromCluster: the range loop takes a next cluster, in any order;
\* the sentinel cluster is skipped
PvsBegin ==
    /\ pc = "clusters"
    /\ \E cluster \in (DOMAIN facesInCluster \ {clusterInvalidId}) \ DOMAIN facesFromCluster :
            pvs' = PvsStart(mapData, facesInCluster, cluster)
    /\ pc' = "decode"
    /\ UNCHANGED <<mapData, facesInCluster, facesFromCluster, treeLeaves, walk>>
    /\ UNCHANGED <<atlasVars, renderVars, bootVars>>

\* getFacesFromCluster: one iteration of the decompression loop
PvsStep ==
    /\ pc = "decode"
    /\ PvsMore(mapData, pvs)
    /\ pvs' = PvsIteration(mapData, facesInCluster, pvs)
    /\ UNCHANGED <<mapData, pc, facesInCluster, facesFromCluster, treeLeaves, walk>>
    /\ UNCHANGED <<atlasVars, renderVars, bootVars>>

\* getFacesFromCluster: the row is done, the cluster's list is deduplicated, sorted and stored
PvsEnd ==
    /\ pc = "decode"
    /\ ~PvsMore(mapData, pvs)
    /\ \E faces \in PvsResult(pvs) :
            facesFromCluster' = [c \in DOMAIN facesFromCluster \cup {pvs.cluster} |->
                                    IF c = pvs.cluster THEN faces ELSE facesFromCluster[c]]
    /\ pc' = "clusters"
    /\ UNCHANGED <<mapData, facesInCluster, pvs, treeLeaves, walk>>
    /\ UNCHANGED <<atlasVars, renderVars, bootVars>>

\* NewBSPTree: every cluster is done; getTreeLeaves; the locals are gone
BuildTreeLeaves ==
    /\ pc = "clusters"
    /\ (DOMAIN facesInCluster \ {clusterInvalidId}) \ DOMAIN facesFromCluster = {}
    /\ treeLeaves' = getTreeLeaves(mapData, facesFromCluster)
    /\ pc' = "built"
    /\ facesInCluster' = EmptyMap
    /\ facesFromCluster' = EmptyMap
    /\ pvs' = NoPvs
    /\ UNCHANGED <<mapData, walk>>
    /\ UNCHANGED <<atlasVars, renderVars, bootVars>>

NextTree == GetFacesInCluster \/ PvsBegin \/ PvsStep \/ PvsEnd \/ BuildTreeLeaves

SpecTree == InitTree /\ [][NextTree]_vars

------------------------------------------------------------------------------
(* SpecWalk: findLeafNode on a built tree *)

\* the planes of the generated trees: the three axial types and a general plane
WalkPlanes ==
    <<[Type |-> 0, Normal |-> <<1, 0, 0>>, Distance |-> 0],
      [Type |-> 1, Normal |-> <<0, 1, 0>>, Distance |-> 1],
      [Type |-> 2, Normal |-> <<0, 0, 1>>, Distance |-> -1],
      [Type |-> 3, Normal |-> <<1, 1, 0>>, Distance |-> 1],
      [Type |-> 0, Normal |-> <<0, 1, 0>>, Distance |-> 0]>>

\* what a child of node i (0-based) of a tree of K nodes over L leaves can be:
\* a later node, or a leaf as -(leaf + 1)
ChildRefs(i, K, L) == ((i + 1)..(K - 1)) \cup {-l : l \in 1..L}

\* every tree of K nodes over 2 leaves; node i splits by plane (i + shift) % 4
TreesOf(K, shift) ==
    {nodes \in [1..K -> [Plane : 0..3, FrontChild : (1..(K - 1)) \cup {-1, -2},
                                         BackChild : (1..(K - 1)) \cup {-1, -2}]] :
        \A i \in 1..K : /\ nodes[i].Plane = ((i - 1) + shift) % 4
                         /\ nodes[i].FrontChild \in ChildRefs(i - 1, K, 2)
                         /\ nodes[i].BackChild \in ChildRefs(i - 1, K, 2)}

\* levels of two leaves, the second one outside the map (the sentinel cluster)
WalkTreeLevels ==
    {[NumFaces |-> 3,
      BSPLeaves |-> <<LeafOf(1, 0), LeafOf(2, clusterInvalidId)>>,
      LeafFaces |-> FaceTable(5, 3),
      VisibilityOffsets |-> <<VisHeader(1)>>,
      VisibilityData |-> VisData(1, <<1>>),
      Nodes |-> nodes,
      Planes |-> WalkPlanes] :
        nodes \in UNION {UNION {TreesOf(K, shift) : shift \in 0..3} : K \in 1..MaxNodes}}

\* levels of one node whose plane is of type 0 with a normal along y
SkewLevels ==
    {[NumFaces |-> 3,
      BSPLeaves |-> <<LeafOf(1, 0), LeafOf(2, cluster)>>,
      LeafFaces |-> FaceTable(5, 3),
      VisibilityOffsets |-> <<VisHeader(1)>>,
      VisibilityData |-> VisData(1, <<1>>),
      Nodes |-> <<[Plane |-> 4, FrontChild |-> front, BackChild |-> -(front + 3)]>>,
      Planes |-> WalkPlanes] :
        cluster \in {0, clusterInvalidId}, front \in {-1, -2}}

WalkLevels == WalkTreeLevels \cup SmallLevels \cup SkewLevels

\* camera positions: behind, on and in front of every plane of the levels
Positions == {<<-1, 0, -2>>, <<0, 0, -2>>, <<0, 1, -1>>, <<1, 1, -2>>, <<2, 0, -1>>}

InitWalkOn(levels) ==
    /\ mapData \in levels
    /\ pc = "built"
    /\ facesInCluster = EmptyMap
    /\ facesFromCluster = EmptyMap
    /\ pvs = NoPvs
    /\ treeLeaves = NewBSPTree(mapData)
    /\ walk = NoWalk
    /\ AtlasIdle
    /\ RenderIdle
    /\ BootIdle
    /\ goarch = "amd64"

InitWalk == InitWalkOn(WalkLevels)

\* findLeafNode is called: nodeId := startNode
FindLeafStart ==
    /\ pc \in {"built", "returned"}
    /\ \E startNode \in 0..(Len(mapData.Nodes) - 1), position \in Positions :
            walk' = [startNode |-> startNode, position |-> position, nodeId |-> startNode,
                     leaf |-> NoWalk.leaf]
    /\ pc' = "walking"
    /\ UNCHANGED <<mapData, facesInCluster, facesFromCluster, pvs, treeLeaves>>
    /\ UNCHANGED <<atlasVars, renderVars, bootVars>>

\* findLeafNode: one iteration of for nodeId >= 0
FindLeafStep ==
    /\ pc = "walking"
    /\ walk.nodeId >= 0
    /\ walk' = [walk EXCEPT !.nodeId = WalkChild(mapData, walk.nodeId, walk.position)]
    /\ UNCHANGED <<mapData, pc, facesInCluster, facesFromCluster, pvs, treeLeaves>>
    /\ UNCHANGED <<atlasVars, renderVars, bootVars>>

\* findLeafNode: return tree.TreeLeaves[-(nodeId + 1)]
FindLeafReturn ==
    /\ pc = "walking"
    /\ walk.nodeId < 0
    /\ IF LeafIndexOf(walk.nodeId) \in 0..(Len(treeLeaves) - 1)
       THEN /\ walk' = [walk EXCEPT !.leaf = At(treeLeaves, LeafIndexOf(walk.nodeId))]
            /\ pc' = "returned"
       ELSE \* index out of range: the program panics
            /\ walk' = walk
            /\ pc' = "panic"
    /\ UNCHANGED <<mapData, facesInCluster, facesFromCluster, pvs, treeLeaves>>
    /\ UNCHANGED <<atlasVars, renderVars, bootVars>>

NextWalk == FindLeafStart \/ FindLeafStep \/ FindLeafReturn

SpecWalk == InitWalk /\ [][NextWalk]_vars

\* the walk is one call on one thread: once called it runs on
SpecWalkFair ==
    InitWalkOn(WalkTreeLevels) /\ [][NextWalk]_vars
        /\ WF_vars(FindLeafStep) /\ WF_vars(FindLeafReturn)

------------------------------------------------------------------------------
(* Claims about the visibility tree *)

LeafCluster(i) == ClusterId(At(mapData.BSPLeaves, i).Cluster)

\* C1: for every valid start node and every position findLeafNode terminates and
\* returns a TreeLeaf whose LeafIndex is within [0, leafCount): the walk ends at a
\* negative reference, which decodes via -(ref + 1) to an index of TreeLeaves.
C1_WalkReturnsLeaf ==
    /\ [](pc # "panic")
    /\ [](pc = "returned" =>
            /\ walk.nodeId < 0
            /\ walk.leaf.LeafIndex = -(walk.nodeId + 1)
            /\ walk.leaf.LeafIndex \in 0..(Len(mapData.BSPLeaves) - 1)
            /\ walk.leaf = At(treeLeaves, walk.leaf.LeafIndex))
    /\ (pc = "walking" ~> pc = "returned")

\* C1 witness: a walk from the root through a second node has returned the last leaf
C1_Witness ==
    /\ pc = "returned"
    /\ walk.startNode = 0
    /\ Len(mapData.Nodes) = 2
    /\ At(mapData.Nodes, 0).FrontChild = 1
    /\ At(mapData.Nodes, 0).BackChild = 1
    /\ walk.leaf.LeafIndex = Len(mapData.BSPLeaves) - 1

\* C2: after NewBSPTree every face index in the Faces list of every TreeLeaf is a
\* valid index into the face array, i.e. lies in [0, len(mapData.Faces)).
C2_FaceIndicesValid ==
    pc = "built" =>
        \A i \in 1..Len(treeLeaves) :
            \A k \in 1..Len(treeLeaves[i].Faces) :
                treeLeaves[i].Faces[k] \in 0..(mapData.NumFaces - 1)

\* C3: every leaf of the sentinel cluster 65535 has an empty visible-face list
\* after NewBSPTree, whatever its own span lists and whatever the visibility data
\* holds, and findLeafNode on a position inside such a leaf returns that empty list.
C3_SentinelLeafEmpty ==
    /\ \A i \in 0..(Len(mapData.BSPLeaves) - 1) :
            LeafCluster(i) = clusterInvalidId => At(treeLeaves, i).Faces = <<>>
    /\ pc = "returned" /\ LeafCluster(-(walk.nodeId + 1)) = clusterInvalidId =>
            /\ walk.leaf.LeafIndex = -(walk.nodeId + 1)
            /\ walk.leaf.Faces = <<>>

\* C3 witness: the walk returned a sentinel leaf whose own span lists faces, in a
\* level where another leaf sees faces
C3_Witness ==
    /\ pc = "returned"
    /\ LeafCluster(walk.leaf.LeafIndex) = clusterInvalidId
    /\ At(mapData.BSPLeaves, walk.leaf.LeafIndex).NumLeafFaces > 0
    /\ \E i \in 1..Len(treeLeaves) : treeLeaves[i].Faces # <<>>

\* the row of the cluster being decoded starts with the bytes 0x00 0x03 0x01
\* in a level of 32 clusters
RunLengthRow ==
    LET v0 == At(mapData.VisibilityOffsets, pvs.cluster)
    IN /\ numClusters(mapData) = 32
       /\ mapData.VisibilityData[v0] = 0
       /\ mapData.VisibilityData[v0 + 1] = 3
       /\ mapData.VisibilityData[v0 + 2] = 1

\* C6: a zero byte is a run-length escape: the next byte N is consumed as a count,
\* the counter advances by 8 * N with no faces added and the cursor by 2 bytes; so
\* the row 0x00 0x03 0x01 of a 32-cluster level skips clusters 0..23 and applies
\* the literal 0x01 to clusters 24..31: exactly cluster 24, besides the decoding
\* cluster itself, contributes faces.
C6_ZeroByteRunLength ==
    /\ [][pc = "decode" /\ PvsMore(mapData, pvs) /\ mapData.VisibilityData[pvs.v] = 0 =>
            /\ pvs'.otherClusterIndex = pvs.otherClusterIndex + 8 * mapData.VisibilityData[pvs.v + 1]
            /\ pvs'.v = pvs.v + 2
            /\ pvs'.visibleFaces = pvs.visibleFaces]_vars
    /\ [](pc = "decode" /\ RunLengthRow =>
            LET v0 == At(mapData.VisibilityOffsets, pvs.cluster)
                own == Range(facesInCluster[pvs.cluster])
                c24 == Range(MapGet(facesInCluster, 24))
            IN \/ pvs.otherClusterIndex = 0 /\ pvs.v = v0 /\ Range(pvs.visibleFaces) = own
               \/ pvs.otherClusterIndex = 24 /\ pvs.v = v0 + 2 /\ Range(pvs.visibleFaces) = own
               \/ pvs.otherClusterIndex = 32 /\ pvs.v = v0 + 3
                    /\ Range(pvs.visibleFaces) = own \cup c24)
    /\ [][pc = "decode" /\ RunLengthRow /\ pc' = "clusters" =>
            Range(facesFromCluster'[pvs.cluster]) =
                Range(facesInCluster[pvs.cluster]) \cup Range(MapGet(facesInCluster, 24))]_vars

\* C6 witness: the row 0x00 0x03 0x01 is decoded to its end for a cluster other
\* than 24, and a face of cluster 24 that is not the cluster's own was added,
\* while the leaves of cluster 23 or 25 in the level added none
C6_Witness ==
    /\ pc = "decode"
    /\ RunLengthRow
    /\ pvs.cluster # 24
    /\ pvs.otherClusterIndex = 32
    /\ 24 \in DOMAIN facesInCluster
    /\ Range(facesInCluster[24]) \ Range(facesInCluster[pvs.cluster]) # {}
    /\ \E c \in {23, 25} : c \in DOMAIN facesInCluster /\ c # pvs.cluster
            /\ Range(facesInCluster[c]) \ Range(pvs.visibleFaces) # {}

\* a level of exactly two leaves, both of cluster 0, whose row for cluster 0 is
\* the single literal byte 0b00000001
TwoLeavesOneCluster ==
    /\ Len(mapData.BSPLeaves) = 2
    /\ LeafCluster(0) = 0
    /\ LeafCluster(1) = 0
    /\ mapData.VisibilityData[At(mapData.VisibilityOffsets, 0)] = 1

\* C7: in such a level facesFromCluster[0] holds exactly the face indices of
\* facesInCluster[0], the deduplicated union of the two leaves' faces: no face
\* is gained or lost.
C7_RoundTrip ==
    TwoLeavesOneCluster /\ 0 \in DOMAIN facesFromCluster =>
        LET leaves == AllLeaves(mapData)
        IN /\ Range(facesFromCluster[0]) = Range(facesInCluster[0])
           /\ Range(facesInCluster[0]) = Range(leaves[1].Faces) \cup Range(leaves[2].Faces)
           /\ Cardinality(Range(facesInCluster[0])) = Len(facesInCluster[0])
           /\ Cardinality(Range(facesFromCluster[0])) = Len(facesFromCluster[0])

\* C7 witness: cluster 0 of such a level is decoded, and its two leaves share a face
C7_Witness ==
    /\ TwoLeavesOneCluster
    /\ 0 \in DOMAIN facesFromCluster
    /\ Len(facesFromCluster[0]) >= 2
    /\ LET leaves == AllLeaves(mapData)
       IN Range(leaves[1].Faces) \cap Range(leaves[2].Faces) # {}

\* the bits of one expanded row: 8 for each of its ceil(numClusters / 8) bytes
RowBits == 8 * ((numClusters(mapData) + 7) \div 8)

\* C11 as the specification states it: the decompression of a row stops exactly
\* when the other-cluster counter equals the number of clusters.
C11_StopsAtClusterCount ==
    pc = "decode" /\ ~PvsMore(mapData, pvs) =>
        pvs.otherClusterIndex = numClusters(mapData)

\* C11, amended: the counter moves in steps of 8 and the decompression of a
\* well-formed row stops when the counter is 8 * ceil(numClusters / 8), the bits
\* of exactly one full row and never more; that is the number of clusters only
\* when the number of clusters is a multiple of 8.
C11_StopsAfterOneRow ==
    pc = "decode" =>
        /\ pvs.otherClusterIndex % 8 = 0
        /\ pvs.otherClusterIndex <= RowBits
        /\ ~PvsMore(mapData, pvs) => pvs.otherClusterIndex = RowBits

\* C11 witness: a row of 9 clusters that holds a run of zero bytes is decoded to
\* its end, 16 bits
C11_Witness ==
    /\ pc = "decode"
    /\ numClusters(mapData) = 9
    /\ ~PvsMore(mapData, pvs)
    /\ pvs.otherClusterIndex = 16
    /\ \E v \in At(mapData.VisibilityOffsets, pvs.cluster)..(pvs.v - 1) :
            mapData.VisibilityData[v] = 0

------------------------------------------------------------------------------
(* Claims about the atlas *)

\* two rectangles have no texel in common
Disjoint(a, b) ==
    \/ a.X + a.Width <= b.X
    \/ b.X + b.Width <= a.X
    \/ a.Y + a.Height <= b.Y
    \/ b.Y + b.Height <= a.Y

\* a rectangle of at least one texel that lies in [0,512) x [0,512)
InsideRoot(r) ==
    /\ r.Width > 0 /\ r.Height > 0
    /\ 0 <= r.X /\ r.X + r.Width <= LIGHTMAP_SIZE
    /\ 0 <= r.Y /\ r.Y + r.Height <= LIGHTMAP_SIZE

\* the rectangle covers texel (x, y)
Covers(r, x, y) ==
    /\ r.X <= x /\ x < r.X + r.Width
    /\ r.Y <= y /\ y < r.Y + r.Height

RECURSIVE LeafSeq(_)
\* the nodes without children, child 0 before child 1
LeafSeq(node) ==
    IF Len(node.Nodes) = 0 THEN <<node>>
    ELSE IF Len(node.Nodes) = 1 THEN LeafSeq(node.Nodes[1])
    ELSE LeafSeq(node.Nodes[1]) \o LeafSeq(node.Nodes[2])

RECURSIVE AreaSum(_)
AreaSum(nodes) ==
    IF nodes = <<>> THEN 0
    ELSE Head(nodes).Width * Head(nodes).Height + AreaSum(Tail(nodes))

\* two children that cut the parent's rectangle in two, side by side or one
\* above the other
Partitions(node) ==
    LET a == node.Nodes[1]
        b == node.Nodes[2]
    IN /\ a.Width > 0 /\ a.Height > 0 /\ b.Width > 0 /\ b.Height > 0
       /\ a.X = node.X /\ a.Y = node.Y
       /\ \/ /\ a.Height = node.Height /\ b.Height = node.Height /\ b.Y = node.Y
              /\ b.X = a.X + a.Width /\ a.Width + b.Width = node.Width
          \/ /\ a.Width = node.Width /\ b.Width = node.Width /\ b.X = node.X
              /\ b.Y = a.Y + a.Height /\ a.Height + b.Height = node.Height

\* C4: for any sequence of AllocateLightmapRect requests of positive width and
\* height on one atlas, no two rectangles returned overlap (every pair of filled
\* nodes is disjoint) and every returned rectangle lies inside [0,512) x [0,512).
C4_NoOverlap ==
    LET filled == SelectSeq(LeafSeq(atlas), LAMBDA n : n.Filled)
    IN /\ \A i, j \in 1..Len(returned) : i < j => Disjoint(returned[i], returned[j])
       /\ \A i \in 1..Len(returned) : InsideRoot(returned[i])
       /\ \A i, j \in 1..Len(filled) : i < j => Disjoint(filled[i], filled[j])
       /\ {RectOf(filled[i]) : i \in 1..Len(filled)} = Range(returned)
       /\ Len(filled) = Len(returned)
       /\ lastAlloc.ok =>
            /\ returned[Len(returned)].Width = lastAlloc.width
            /\ returned[Len(returned)].Height = lastAlloc.height
            /\ NodeAt(atlas, lastAlloc.path).Filled

\* C4 witness: MaxAllocs rectangles were returned, two of them side by side, and
\* a further request was refused
C4_Witness ==
    /\ Len(returned) = MaxAllocs
    /\ ~lastAlloc.ok
    /\ lastAlloc.width <= LIGHTMAP_SIZE
    /\ \E i, j \in 1..Len(returned) :
            /\ returned[j].X = returned[i].X + returned[i].Width
            /\ returned[j].Y = returned[i].Y

\* C5: after any sequence of AllocateLightmapRect calls every LightmapNode has no
\* children or exactly two children whose rectangles partition the parent's
\* rectangle exactly; so the leaf rectangles, filled and free, tile the root.
C5_TreePartition ==
    LET leaves == LeafSeq(atlas)
    IN /\ RectOf(atlas) = RectOf(NewLightmapRoot)
       /\ \A node \in NodesOf(atlas) :
            /\ Len(node.Nodes) \in {0, 2}
            /\ Len(node.Nodes) = 2 => Partitions(node)
       /\ \A i, j \in 1..Len(leaves) : i < j => Disjoint(leaves[i], leaves[j])
       /\ \A i \in 1..Len(leaves) : InsideRoot(leaves[i])
       /\ AreaSum(leaves) = LIGHTMAP_SIZE * LIGHTMAP_SIZE

\* C5 witness: a tree split both ways, with filled and free leaves, after a
\* refused request
C5_Witness ==
    /\ Len(returned) >= 3
    /\ ~lastAlloc.ok
    /\ \E n \in NodesOf(atlas) : Len(n.Nodes) = 2 /\ n.Nodes[2].X > n.X
    /\ \E n \in NodesOf(atlas) : Len(n.Nodes) = 2 /\ n.Nodes[2].Y > n.Y
    /\ \E n \in NodesOf(atlas) : Len(n.Nodes) = 0 /\ ~n.Filled

\* C9: the atlas's last texel (511,511) is reserved as the always-white texel:
\* no rectangle returned by AllocateLightmapRect ever covers it.
C9_LastTexelNeverAllocated ==
    \A i \in 1..Len(returned) : ~Covers(returned[i], LIGHTMAP_SIZE - 1, LIGHTMAP_SIZE - 1)

------------------------------------------------------------------------------
(* render/surface.go, render/q2bsp.go, render/polygonbuffer.go: the surfaces *)

\* The float32 coordinates of the model (vertices, texture offsets, texture
\* coordinates) are multiples of one half and are held exactly, as a count of
\* halves. A quotient that need not be a multiple of one half is held as the
\* pair of its numerator n and denominator d.
Half(x) == 2 * x

\* the float32 NaN, held as a number that no coordinate of the model takes
NaN == -2000000000

\* the architectures: they differ in what int32(x) is for a NaN
GoArchs == {"amd64", "arm64", "riscv64"}

\* int32(NaN): the conversion is implementation-dependent. CVTTSD2SL gives the
\* smallest int32, FCVTZS gives 0, FCVT.W.D gives the largest int32
Int32OfNaN ==
    CASE goarch = "amd64" -> -2147483647 - 1
      [] goarch = "arm64" -> 0
      [] goarch = "riscv64" -> 2147483647

\* a + b and a * b of float32 values
FAdd(a, b) == IF a = NaN \/ b = NaN THEN NaN ELSE a + b

FMul(a, b) == IF a = NaN \/ b = NaN THEN NaN ELSE a * b

\* a < b of float32 values: false when one of them is NaN
FLess(a, b) == a # NaN /\ b # NaN /\ a < b

\* math.Floor of a count of halves
Floor(h) == IF h = NaN THEN NaN ELSE 2 * (h \div 2)

\* math.Floor(x / 16) of a count of halves, a whole number
FloorDiv16(h) == h \div 32

\* math.Ceil(x / 16) of a count of halves, a whole number
CeilDiv16(h) == -((-h) \div 32)

\* equality of two quotients: a NaN equals nothing
RatEq(a, b) == a.n # NaN /\ b.n # NaN /\ a.n * b.d = b.n * a.d

\* NewSurface: LightU and LightV of a vertex that has no lightmap, 0.999
SentinelUV == [n |-> 999, d |-> 1000]

\* render/q2bsp.go: SURFACE_SKY is bit 2 of the flags
IsSky(texInfo) == BitSet(texInfo.Flags, 2)

\* getEdgeVertex
getEdgeVertex(md, faceEdgeIdx) ==
    LET edgeIdx == At(md.FaceEdges, faceEdgeIdx)
    IN IF edgeIdx >= 0
       THEN At(md.Vertices, At(md.Edges, edgeIdx).V1)
       ELSE At(md.Vertices, At(md.Edges, -edgeIdx).V2)

RECURSIVE FanFromStrip(_, _, _)
\* a loop that makes the triangles of a strip, (v(k), v(k+1), v(k+2))
FanFromStrip(md, faceInfo, offset) ==
    IF offset >= faceInfo.NumEdges THEN <<>>
    ELSE <<getEdgeVertex(md, faceInfo.FirstEdge + offset - 2),
           getEdgeVertex(md, faceInfo.FirstEdge + offset - 1),
           getEdgeVertex(md, faceInfo.FirstEdge + offset)>>
         \o FanFromStrip(md, faceInfo, offset + 1)

RECURSIVE FanFrom(_, _, _)
\* getAllFaceVertices: the loop, one triangle (v0, v1, v2) per offset
FanFrom(md, faceInfo, offset) ==
    IF offset >= faceInfo.NumEdges THEN <<>>
    ELSE <<getEdgeVertex(md, faceInfo.FirstEdge),
           getEdgeVertex(md, faceInfo.FirstEdge + offset - 1),
           getEdgeVertex(md, faceInfo.FirstEdge + offset)>>
         \o FanFrom(md, faceInfo, offset + 1)

\* getAllFaceVertices
getAllFaceVertices(md, faceInfo) == FanFrom(md, faceInfo, 2)

\* getTextureUV: vtx . axis + offset, in halves
AxisDot(vtx, axis, offset) ==
    FAdd(FAdd(FAdd(FMul(vtx[1], axis[1]), FMul(vtx[2], axis[2])), FMul(vtx[3], axis[3])),
         offset)

\* getTextureUV, in halves
getTextureUV(vtx, tex) ==
    <<AxisDot(vtx, tex.UAxis, tex.UOffset), AxisDot(vtx, tex.VAxis, tex.VOffset)>>

\* getLightmapDimensions: math.Floor of startUV[0] and startUV[1]
FloorUV(uv) == <<Floor(uv[1]), Floor(uv[2])>>

\* getLightmapDimensions: minU, minV, maxU and maxV before the loop
SpanStart(f) == [minU |-> f[1], minV |-> f[2], maxU |-> f[1], maxV |-> f[2]]

\* getLightmapDimensions: the four comparisons of one vertex; a comparison with
\* a NaN changes nothing
SpanWith(span, f) ==
    [minU |-> IF FLess(f[1], span.minU) THEN f[1] ELSE span.minU,
     minV |-> IF FLess(f[2], span.minV) THEN f[2] ELSE span.minV,
     maxU |-> IF FLess(span.maxU, f[1]) THEN f[1] ELSE span.maxU,
     maxV |-> IF FLess(span.maxV, f[2]) THEN f[2] ELSE span.maxV]

RECURSIVE SpanFrom(_, _, _, _)
\* getLightmapDimensions: the loop over the vertices from i on
SpanFrom(faceVertices, texInfo, i, span) ==
    IF i > Len(faceVertices) THEN span
    ELSE SpanFrom(faceVertices, texInfo, i + 1,
            SpanWith(span, FloorUV(getTextureUV(faceVertices[i], texInfo))))

\* a count of texels that leaves out the + 1
TexelSpanOfDifference(min, max) ==
    IF min = NaN \/ max = NaN THEN Int32OfNaN
    ELSE CeilDiv16(max) - FloorDiv16(min)

\* getLightmapDimensions: int32(math.Ceil(max/16) - math.Floor(min/16) + 1)
TexelSpan(min, max) ==
    IF min = NaN \/ max = NaN THEN Int32OfNaN
    ELSE CeilDiv16(max) - FloorDiv16(min) + 1

\* getLightmapDimensions: the values returned for the span found
SpanDimensions(span) ==
    [Width  |-> TexelSpan(span.minU, span.maxU),
     Height |-> TexelSpan(span.minV, span.maxV),
     MinU   |-> Floor(span.minU),
     MinV   |-> Floor(span.minV)]

\* getLightmapDimensions: Width and Height in texels, MinU and MinV in halves
getLightmapDimensions(faceVertices, texInfo) ==
    SpanDimensions(SpanFrom(faceVertices, texInfo, 2,
                            SpanStart(FloorUV(getTextureUV(faceVertices[1], texInfo)))))

\* NewSurface
NewSurface(faceVertices, texInfo, textureWidth, textureHeight) ==
    [TexInfo |-> texInfo,
     TexturedVertices |->
        [i \in 1..Len(faceVertices) |->
            LET uv == getTextureUV(faceVertices[i], texInfo)
            IN [X |-> faceVertices[i][1], Y |-> faceVertices[i][2], Z |-> faceVertices[i][3],
                TextureU |-> [n |-> uv[1], d |-> Half(textureWidth)],
                TextureV |-> [n |-> uv[2], d |-> Half(textureHeight)],
                LightU |-> SentinelUV,
                LightV |-> SentinelUV]]]

\* CopyMapLightmapToTexture and updateSubTexture: the call of TexSubImage2D
CopyMapLightmapToTexture(arrayOffset, rect, totalPixels) ==
    [X |-> rect.X, Y |-> rect.Y, Width |-> rect.Width, Height |-> rect.Height,
     arrayOffset |-> arrayOffset, totalPixels |-> totalPixels]

\* UpdateLightmap: LightU and LightV of one vertex whose texture coordinates are uv
LightmapUV(tv, uv, dims, rect) ==
    [tv EXCEPT
        !.LightU = [n |-> FAdd(FAdd(uv[1], FMul(-1, dims.MinU)), Half(rect.X * 16 + 8)),
                    d |-> Half(LIGHTMAP_SIZE * 16)],
        !.LightV = [n |-> FAdd(FAdd(uv[2], FMul(-1, dims.MinV)), Half(rect.Y * 16 + 8)),
                    d |-> Half(LIGHTMAP_SIZE * 16)]]

\* UpdateLightmap: the loop that writes LightU and LightV
LightmapUVs(surface, texInfo, dims, rect) ==
    [surface EXCEPT !.TexturedVertices =
        [i \in 1..Len(surface.TexturedVertices) |->
            LightmapUV(surface.TexturedVertices[i],
                       getTextureUV(<<surface.TexturedVertices[i].X,
                                      surface.TexturedVertices[i].Y,
                                      surface.TexturedVertices[i].Z>>, texInfo),
                       dims, rect)]]

\* UpdateLightmap: lightmapNode == nil, or the upload and the light coordinates,
\* but the vertices of a face that found no room are marked
UpdateLightmapNodeMarksFailure(root, surface, texInfo, faceLightmapOffset, dims, r) ==
    IF ~r.ok
    THEN [kind |-> "nil", Root |-> r.node,
          alloc |-> <<[width |-> dims.Width, height |-> dims.Height,
                       ok |-> r.ok, path |-> r.path]>>,
          uploads |-> <<>>,
          surface |-> LightmapUVs(surface, texInfo, dims, RectOf(root))]
    ELSE [kind |-> "placed", Root |-> r.node,
          alloc |-> <<[width |-> dims.Width, height |-> dims.Height,
                       ok |-> r.ok, path |-> r.path]>>,
          uploads |-> <<CopyMapLightmapToTexture(faceLightmapOffset,
                                                   RectOf(NodeAt(r.node, r.path)),
                                                   dims.Width * dims.Height)>>,
          surface |-> LightmapUVs(surface, texInfo, dims, RectOf(NodeAt(r.node, r.path)))]

\* UpdateLightmap from the call of AllocateLightmapRect on: r is what it returned
UpdateLightmapNode(root, surface, texInfo, faceLightmapOffset, dims, r) ==
    IF ~r.ok
    THEN [kind |-> "nil", Root |-> r.node,
          alloc |-> <<[width |-> dims.Width, height |-> dims.Height,
                       ok |-> r.ok, path |-> r.path]>>,
          uploads |-> <<>>,
          surface |-> surface]
    ELSE [kind |-> "placed", Root |-> r.node,
          alloc |-> <<[width |-> dims.Width, height |-> dims.Height,
                       ok |-> r.ok, path |-> r.path]>>,
          uploads |-> <<CopyMapLightmapToTexture(faceLightmapOffset,
                                                   RectOf(NodeAt(r.node, r.path)),
                                                   dims.Width * dims.Height)>>,
          surface |-> LightmapUVs(surface, texInfo, dims, RectOf(NodeAt(r.node, r.path)))]

\* UpdateLightmap from the check of the dimensions on, but only a negative
\* width or height returns early
UpdateLightmapSizedOnlyNegative(root, surface, texInfo, faceLightmapOffset, dims) ==
    IF dims.Height < 0 \/ dims.Width < 0
    THEN [kind |-> "empty", Root |-> root, alloc |-> <<>>, uploads |-> <<>>,
          surface |-> surface]
    ELSE UpdateLightmapNode(root, surface, texInfo, faceLightmapOffset, dims,
                            AllocateLightmapRect(root, dims.Width, dims.Height))

\* UpdateLightmap from the check of the dimensions on
UpdateLightmapSized(root, surface, texInfo, faceLightmapOffset, dims) ==
    IF dims.Height <= 0 \/ dims.Width <= 0
    THEN [kind |-> "empty", Root |-> root, alloc |-> <<>>, uploads |-> <<>>,
          surface |-> surface]
    ELSE UpdateLightmapNode(root, surface, texInfo, faceLightmapOffset, dims,
                            AllocateLightmapRect(root, dims.Width, dims.Height))

\* UpdateLightmap: the atlas, the uploads made and the surface as the call leaves
\* them; kind tells which return was taken
UpdateLightmap(root, surface, faceVertices, texInfo, faceLightmapOffset) ==
    IF texInfo.Flags # 0
    THEN [kind |-> "unlit", Root |-> root, alloc |-> <<>>, uploads |-> <<>>,
          surface |-> surface]
    ELSE UpdateLightmapSized(root, surface, texInfo, faceLightmapOffset,
                             getLightmapDimensions(faceVertices, texInfo))

\* CreateRenderingData: surfacesByTexture[texId] = append(surfacesByTexture[texId], *surface)
AppendSurface(surfacesByTexture, texId, surface) ==
    IF texId \in DOMAIN surfacesByTexture
    THEN [surfacesByTexture EXCEPT ![texId] = Append(@, surface)]
    ELSE surfacesByTexture @@ (texId :> <<surface>>)

\* CreateRenderingData: the body of the loop for one face that is not sky
CreateSurface(md, mapTextures, root, faceId) ==
    LET faceInfo == At(md.Faces, faceId)
        texInfo == At(md.TexInfos, faceInfo.TextureInfo)
        texId == md.TextureIds[texInfo.TextureName]
        mapTexture == At(mapTextures, texId)
        faceVertices == getAllFaceVertices(md, faceInfo)
        surface == NewSurface(faceVertices, texInfo, mapTexture.Width, mapTexture.Height)
    IN [texId |-> texId,
        lit |-> UpdateLightmap(root, surface, faceVertices, texInfo, faceInfo.LightmapOffset)]

RECURSIVE SurfaceVertices(_, _)
\* NewPolygonBuffer: the vertices of the surfaces of one texture, in order
SurfaceVertices(surfaces, i) ==
    IF i > Len(surfaces) THEN <<>>
    ELSE surfaces[i].TexturedVertices \o SurfaceVertices(surfaces, i + 1)

\* texKeys in descending order
TexKeysDescending(surfacesByTexture) ==
    LET up == SortInts(CHOOSE keys \in Perms(DOMAIN surfacesByTexture) : TRUE)
    IN [i \in 1..Len(up) |-> up[Len(up) + 1 - i]]

\* NewPolygonBuffer: texKeys, sorted
TexKeys(surfacesByTexture) ==
    SortInts(CHOOSE keys \in Perms(DOMAIN surfacesByTexture) : TRUE)

RECURSIVE BufferFrom(_, _, _)
\* NewPolygonBuffer: Buffer, one element for the 7 floats of a vertex
BufferFrom(surfacesByTexture, texKeys, i) ==
    IF i > Len(texKeys) THEN <<>>
    ELSE SurfaceVertices(surfacesByTexture[texKeys[i]], 1)
         \o BufferFrom(surfacesByTexture, texKeys, i + 1)

\* NewPolygonBuffer
NewPolygonBuffer(surfacesByTexture, mapTextures) ==
    LET texKeys == TexKeys(surfacesByTexture)
        count(k) == Len(SurfaceVertices(surfacesByTexture[k], 1))
        place(k) == CHOOSE i \in 1..Len(texKeys) : texKeys[i] = k
    IN [Buffer |-> BufferFrom(surfacesByTexture, texKeys, 1),
        MapTextures |->
            [t \in 1..Len(mapTextures) |->
                IF (t - 1) \in DOMAIN surfacesByTexture
                THEN [mapTextures[t] EXCEPT
                        !.VertOffset = Len(BufferFrom(surfacesByTexture,
                                                      SubSeq(texKeys, 1, place(t - 1) - 1), 1)),
                        !.VertCount = count(t - 1)]
                ELSE [mapTextures[t] EXCEPT !.VertOffset = 0, !.VertCount = 0]]]

RECURSIVE getTextureIdsFrom(_, _, _)
\* q2file getTextureIds: the loop, nextId is the number of names seen
getTextureIdsFrom(texInfos, i, textureIds) ==
    IF i > Len(texInfos) THEN textureIds
    ELSE LET filename == texInfos[i].TextureName
         IN getTextureIdsFrom(texInfos, i + 1,
                IF filename \in DOMAIN textureIds THEN textureIds
                ELSE textureIds @@ (filename :> Cardinality(DOMAIN textureIds)))

\* q2file getTextureIds (a TextureName is held as the string before its first 0 byte)
getTextureIds(texInfos) == getTextureIdsFrom(texInfos, 1, [x \in {} |-> 0])

\* the .wal files of the pak: Width and Height of the textures that are there
WalFiles == [a |-> [Width |-> 64, Height |-> 64], b |-> [Width |-> 128, Height |-> 32]]

\* a NewPolygonBuffer that sets the offsets and counts in the slice it is given
GivenTexturesWritten(surfacesByTexture, given) ==
    NewPolygonBuffer(surfacesByTexture, given).MapTextures

\* NewPolygonBuffer: the slice given, as the call leaves it. MapTextures of the
\* buffer is made anew and filled element by element, the slice given is read
GivenTextures(surfacesByTexture, given) == given

\* main createTextureList: a MapTexture per id, NewMapTexture(0, 0, 0) for a
\* texture that is missing (the Id stands for the name OpenGL gave the texture)
createTextureList(textureIds) ==
    [t \in 1..Cardinality(DOMAIN textureIds) |->
        LET filename == CHOOSE f \in DOMAIN textureIds : textureIds[f] = t - 1
        IN IF filename \in DOMAIN WalFiles
           THEN [Id |-> t, Width |-> WalFiles[filename].Width,
                 Height |-> WalFiles[filename].Height, VertOffset |-> 0, VertCount |-> 0]
           ELSE [Id |-> 0, Width |-> 0, Height |-> 0, VertOffset |-> 0, VertCount |-> 0]]

RECURSIVE findLeafNodeId(_, _, _)
\* findLeafNode: the loop for nodeId >= 0
findLeafNodeId(md, nodeId, position) ==
    IF nodeId >= 0 THEN findLeafNodeId(md, WalkChild(md, nodeId, position), position)
    ELSE nodeId

\* main: prevLeaf != curLeaf, of every frame
NeedsUpdateAlways(prev, cur) == TRUE

\* main: prevLeaf != curLeaf
NeedsUpdate(prev, cur) == prev # cur

------------------------------------------------------------------------------
(* SpecRender: the render loop of main *)

\* the faces of the levels, quads in the plane z = k: the corner and the size,
\* in world units. With the texture axes along x and y a quad of w by h units
\* has a lightmap of w/16 + 1 by h/16 + 1 texels: 2x2, 512x512 (the whole
\* atlas), 4x2 (it starts left of the origin), 513x2 (wider than the atlas),
\* 2x2 (sky), 2x2 (warped, no lightmap) and a quad whose first corner has
\* the x coordinate NaN
Quads ==
    <<[x |-> 0, y |-> 0, w |-> 16, h |-> 16],
      [x |-> 0, y |-> 0, w |-> 8176, h |-> 8176],
      [x |-> -24, y |-> 0, w |-> 32, h |-> 16],
      [x |-> 0, y |-> 0, w |-> 8192, h |-> 16],
      [x |-> 0, y |-> 0, w |-> 16, h |-> 16],
      [x |-> 0, y |-> 0, w |-> 16, h |-> 16],
      [x |-> 0, y |-> 0, w |-> 16, h |-> 16]>>

\* the quads (counted from 1) whose first corner has the x coordinate NaN
NaNQuads == {Len(Quads)}

\* the texture info of each face
QuadTexInfo == <<0, 1, 0, 1, 2, 3, 0>>

\* texture b is shifted by half a unit; 2 is the sky, 3 a warped surface
RenderTexInfos ==
    <<[UAxis |-> <<1, 0, 0>>, UOffset |-> 0, VAxis |-> <<0, 1, 0>>, VOffset |-> 0,
       Flags |-> 0, TextureName |-> "a"],
      [UAxis |-> <<1, 0, 0>>, UOffset |-> 1, VAxis |-> <<0, 1, 0>>, VOffset |-> 1,
       Flags |-> 0, TextureName |-> "b"],
      [UAxis |-> <<1, 0, 0>>, UOffset |-> 0, VAxis |-> <<0, 1, 0>>, VOffset |-> 0,
       Flags |-> 4, TextureName |-> "sky"],
      [UAxis |-> <<1, 0, 0>>, UOffset |-> 0, VAxis |-> <<0, 1, 0>>, VOffset |-> 0,
       Flags |-> 8, TextureName |-> "a"]>>

\* the four corners of quad k (0-based), vertices 4k .. 4k + 3
QuadVertices ==
    [v \in 1..(4 * Len(Quads)) |->
        LET q == Quads[((v - 1) \div 4) + 1]
            j == (v - 1) % 4
        IN <<IF ((v - 1) \div 4) + 1 \in NaNQuads /\ j = 0 THEN NaN
             ELSE Half(q.x + (IF j \in {1, 2} THEN q.w ELSE 0)),
             Half(q.y + (IF j \in {2, 3} THEN q.h ELSE 0)),
             Half((v - 1) \div 4)>>]

\* edge 4k + j joins corner j of quad k to the next corner; the odd edges are
\* stored from their end to their start
QuadEdges ==
    [e \in 1..(4 * Len(Quads)) |->
        LET k == (e - 1) \div 4
            j == (e - 1) % 4
        IN IF j % 2 = 0 THEN [V1 |-> 4 * k + j, V2 |-> 4 * k + ((j + 1) % 4)]
                        ELSE [V1 |-> 4 * k + ((j + 1) % 4), V2 |-> 4 * k + j]]

\* the face edges: an edge stored backwards is referred to by its negative index
QuadFaceEdges ==
    [e \in 1..(4 * Len(Quads)) |-> IF (e - 1) % 2 = 0 THEN e - 1 ELSE -(e - 1)]

QuadFaces ==
    [f \in 1..Len(Quads) |->
        [FirstEdge |-> 4 * (f - 1), NumEdges |-> 4, TextureInfo |-> QuadTexInfo[f],
         LightmapOffset |-> 12 * (f - 1)]]

\* levels of four leaves along x, of faces {0, 2}, {2, 5}, {1, 3, 4} and {4, 6}, in
\* two clusters; the last leaf may lie outside the map
RenderLevels ==
    {[NumFaces |-> Len(Quads),
      BSPLeaves |-> <<[Cluster |-> 0, FirstLeafFace |-> 0, NumLeafFaces |-> 2],
                      [Cluster |-> cl[1], FirstLeafFace |-> 1, NumLeafFaces |-> 2],
                      [Cluster |-> cl[2], FirstLeafFace |-> 3, NumLeafFaces |-> 3],
                      [Cluster |-> cl[3], FirstLeafFace |-> 5, NumLeafFaces |-> 2]>>,
      LeafFaces |-> <<0, 2, 5, 1, 3, 4, 6>>,
      VisibilityOffsets |-> RowOffsets(2, rows),
      VisibilityData |-> VisData(2, Flatten(rows)),
      Nodes |-> ChainNodes(4),
      Planes |-> ChainPlanes(4),
      Vertices |-> QuadVertices,
      Edges |-> QuadEdges,
      FaceEdges |-> QuadFaceEdges,
      Faces |-> QuadFaces,
      TexInfos |-> RenderTexInfos,
      TextureIds |-> getTextureIds(RenderTexInfos)] :
        <<cl, rows>> \in ({0, 1} \X {0, 1} \X {1, clusterInvalidId}) \X [1..2 -> RowsOf(2)]}

\* main initMesh: mapTextures
MapTextures == createTextureList(mapData.TextureIds)

InitRender ==
    /\ mapData \in RenderLevels
    /\ pc = "loop"
    /\ facesInCluster = EmptyMap
    /\ facesFromCluster = EmptyMap
    /\ pvs = NoPvs
    /\ treeLeaves = NewBSPTree(mapData)
    /\ walk = NoWalk
    /\ AtlasIdle
    /\ uploads = <<>>
    /\ prevLeaf = -1
    /\ curLeaf = 0
    /\ renderMap = NoRenderMap
    /\ build = NoBuild
    /\ frame = NoFrame
    /\ oldMapTextures = MapTextures
    /\ BootIdle
    /\ goarch \in GoArchs

\* what the loop leaves alone
RenderFixed ==
    UNCHANGED <<mapData, facesInCluster, facesFromCluster, pvs, treeLeaves, walk, bootVars>>

\* main, the loop body up to render.CreateRenderingData: the camera's leaf is another
\* one than prevLeaf and has faces; CreateRenderingData starts with a new lightmap
FrameRebuild ==
    /\ pc = "loop"
    /\ \E position \in Positions :
        LET index == LeafIndexOf(findLeafNodeId(mapData, 0, position))
        IN /\ index \in 0..(Len(treeLeaves) - 1)
           /\ NeedsUpdate(prevLeaf, At(treeLeaves, index).LeafIndex)
           /\ Len(At(treeLeaves, index).Faces) > 0
           /\ curLeaf' = At(treeLeaves, index).LeafIndex
           /\ frame' = [position |-> position, located |-> index, prev |-> prevLeaf,
                        rebuilt |-> TRUE]
           /\ build' = [faceIds |-> At(treeLeaves, index).Faces, next |-> 0,
                        surfacesByTexture |-> EmptyMap, last |-> "none"]
    /\ atlas' = NewLightmapRoot
    /\ uploads' = <<>>
    /\ returned' = <<>>
    /\ lastAlloc' = NoAlloc
    /\ pc' = "create"
    /\ UNCHANGED <<prevLeaf, renderMap, oldMapTextures>>
    /\ RenderFixed

\* main, the loop body up to render.DrawMap when nothing is rebuilt: the leaf is
\* prevLeaf again, or it has no faces
FrameKeep ==
    /\ pc = "loop"
    /\ \E position \in Positions :
        LET index == LeafIndexOf(findLeafNodeId(mapData, 0, position))
        IN /\ index \in 0..(Len(treeLeaves) - 1)
           /\ ~(NeedsUpdate(prevLeaf, At(treeLeaves, index).LeafIndex)
                /\ Len(At(treeLeaves, index).Faces) > 0)
           /\ curLeaf' = At(treeLeaves, index).LeafIndex
           /\ prevLeaf' = IF NeedsUpdate(prevLeaf, At(treeLeaves, index).LeafIndex)
                          THEN At(treeLeaves, index).LeafIndex ELSE prevLeaf
           /\ frame' = [position |-> position, located |-> index, prev |-> prevLeaf,
                        rebuilt |-> FALSE]
    /\ pc' = "draw"
    /\ UNCHANGED <<atlasVars, uploads, renderMap, build, oldMapTextures>>
    /\ RenderFixed

\* CreateRenderingData: what one iteration of the loop leaves of the surface made
AppendMade(made) ==
    /\ atlas' = made.lit.Root
    /\ uploads' = uploads \o made.lit.uploads
    /\ returned' = IF made.lit.kind = "placed"
                   THEN Append(returned, RectOf(NodeAt(made.lit.Root,
                                                        made.lit.alloc[1].path)))
                   ELSE returned
    /\ lastAlloc' = IF made.lit.alloc = <<>> THEN lastAlloc ELSE made.lit.alloc[1]
    /\ build' = [build EXCEPT
                    !.next = @ + 1,
                    !.last = made.lit.kind,
                    !.surfacesByTexture = AppendSurface(@, made.texId, made.lit.surface)]
    /\ UNCHANGED pc

\* CreateRenderingData: one iteration of the loop over faceIds
CreateFace ==
    /\ pc = "create"
    /\ build.next < Len(build.faceIds)
    /\ LET faceId == At(build.faceIds, build.next)
       IN IF faceId \notin 0..(Len(mapData.Faces) - 1)
          THEN \* index out of range: the program panics
               /\ pc' = "panic"
               /\ UNCHANGED <<atlasVars, uploads, build>>
          ELSE IF IsSky(At(mapData.TexInfos, At(mapData.Faces, faceId).TextureInfo))
          THEN /\ build' = [build EXCEPT !.next = @ + 1, !.last = "sky"]
               /\ UNCHANGED <<pc, atlasVars, uploads>>
          ELSE AppendMade(CreateSurface(mapData, oldMapTextures, atlas, faceId))
    /\ UNCHANGED <<prevLeaf, curLeaf, renderMap, frame, oldMapTextures>>
    /\ RenderFixed

\* CreateRenderingData returns the RenderMap; main: prevLeaf = curLeaf
CreateReturn ==
    /\ pc = "create"
    /\ build.next >= Len(build.faceIds)
    /\ oldMapTextures' = GivenTextures(build.surfacesByTexture, oldMapTextures)
    /\ LET polygonBuffer == NewPolygonBuffer(build.surfacesByTexture, oldMapTextures)
       IN renderMap' = [MapLightmap |-> <<[Root |-> atlas, uploads |-> uploads]>>,
                        MapTextures |-> polygonBuffer.MapTextures,
                        VertexBuffer |-> polygonBuffer.Buffer]
    /\ prevLeaf' = curLeaf
    /\ pc' = "draw"
    /\ UNCHANGED <<atlasVars, uploads, curLeaf, build, frame>>
    /\ RenderFixed

\* DrawMap: (*renderMap.MapLightmap).Texture of a RenderMap never built is a nil
\* dereference
DrawMap ==
    /\ pc = "draw"
    /\ pc' = IF renderMap.MapLightmap = <<>> THEN "panic" ELSE "loop"
    /\ UNCHANGED <<atlasVars, renderVars, bootVars>>
    /\ RenderFixed

NextRender == FrameRebuild \/ FrameKeep \/ CreateFace \/ CreateReturn \/ DrawMap

SpecRender == InitRender /\ [][NextRender]_vars

------------------------------------------------------------------------------
(* Claims about the surfaces and the render loop *)

\* the face the loop of CreateRenderingData processes next
NextFace == At(mapData.Faces, At(build.faceIds, build.next))

NextTexInfo == At(mapData.TexInfos, NextFace.TextureInfo)

NextDimensions == getLightmapDimensions(getAllFaceVertices(mapData, NextFace), NextTexInfo)

\* the next face has a lightmap and AllocateLightmapRect will return nil for it
NextAllocationFails ==
    /\ pc = "create"
    /\ build.next < Len(build.faceIds)
    /\ At(build.faceIds, build.next) \in 0..(Len(mapData.Faces) - 1)
    /\ NextTexInfo.Flags = 0
    /\ NextDimensions.Width > 0 /\ NextDimensions.Height > 0
    /\ ~AllocateLightmapRect(atlas, NextDimensions.Width, NextDimensions.Height).ok

\* every vertex of the surface has the light coordinates (0.999, 0.999)
AllSentinel(surface) ==
    \A i \in 1..Len(surface.TexturedVertices) :
        /\ RatEq(surface.TexturedVertices[i].LightU, SentinelUV)
        /\ RatEq(surface.TexturedVertices[i].LightV, SentinelUV)

RECURSIVE VerticesOfFaces(_, _)
\* the vertices that the faces of a list which are not sky give: 3 per triangle
VerticesOfFaces(faceIds, i) ==
    IF i > Len(faceIds) THEN 0
    ELSE LET faceInfo == At(mapData.Faces, faceIds[i])
         IN (IF IsSky(At(mapData.TexInfos, faceInfo.TextureInfo)) THEN 0
             ELSE 3 * (faceInfo.NumEdges - 2))
            + VerticesOfFaces(faceIds, i + 1)

\* C8: when the allocation of a rectangle fails for a face with a lightmap (the
\* atlas is full, or the face is larger than the atlas) UpdateLightmap returns
\* without an error, nothing is uploaded to the atlas texture, every vertex of
\* the face keeps the light coordinates (0.999, 0.999), and CreateRenderingData
\* goes on with the faces that remain: the buffer it returns holds the vertices
\* of every face of the list that is not sky.
C8_AllocationFailureIsSilent ==
    /\ [][NextAllocationFails =>
            LET texId == mapData.TextureIds[NextTexInfo.TextureName]
                now == build'.surfacesByTexture[texId]
            IN /\ pc' = "create"
               /\ uploads' = uploads
               /\ build'.next = build.next + 1
               /\ build'.faceIds = build.faceIds
               /\ Len(now) = Len(MapGet(build.surfacesByTexture, texId)) + 1
               /\ Len(now[Len(now)].TexturedVertices) = 3 * (NextFace.NumEdges - 2)
               /\ AllSentinel(now[Len(now)])]_vars
    /\ [](pc = "draw" /\ frame.rebuilt =>
            Len(renderMap.VertexBuffer)
                = VerticesOfFaces(At(treeLeaves, frame.located).Faces, 1))

\* a face with a lightmap found no room, and a later face of the list was placed
C8_Witness ==
    /\ pc = "create"
    /\ build.last = "placed"
    /\ \E texId \in DOMAIN build.surfacesByTexture :
        \E i \in 1..Len(build.surfacesByTexture[texId]) :
            /\ build.surfacesByTexture[texId][i].TexInfo.Flags = 0
            /\ AllSentinel(build.surfacesByTexture[texId][i])

\* C10 as the specification states it: the rendering data are rebuilt in a frame
\* only if the cluster of the leaf located differs from the cluster of the leaf
\* located in the frame before.
C10_RebuildOnlyOnClusterChange ==
    frame.rebuilt /\ frame.prev # -1 =>
        LeafCluster(frame.located) # LeafCluster(frame.prev)

\* C10, amended: the rendering data are rebuilt in a frame only if the index of
\* the leaf located differs from prevLeaf, and at the start of every frame after
\* the first prevLeaf is the index of the leaf located in the frame before.
C10_RebuildOnlyOnLeafChange ==
    /\ frame.rebuilt => frame.located # frame.prev
    /\ pc = "loop" /\ frame.located # -1 => prevLeaf = frame.located

\* a rebuild on moving to another leaf of the same cluster
C10_Witness ==
    /\ frame.rebuilt
    /\ frame.prev # -1
    /\ frame.located # frame.prev
    /\ LeafCluster(frame.located) = LeafCluster(frame.prev)

------------------------------------------------------------------------------
(* SpecBoot: main from the loading of the level to the render loop *)

\* the bytes "IBSP"
MagicIBSP == <<73, 66, 83, 80>>

\* a LoadQ2BSP that does not look at the version
LoadQ2BSPAnyVersion(f) ==
    IF ~f.Readable THEN [mapData |-> <<>>, err |-> "unexpected EOF"]
    ELSE IF f.Magic # MagicIBSP THEN [mapData |-> <<>>, err |-> "BSP Header: Wrong magic"]
    ELSE [mapData |-> <<f.Lumps>>, err |-> "nil"]

\* LoadQ2BSP: the header is read and verified, then the lumps are loaded
LoadQ2BSP(f) ==
    IF ~f.Readable THEN [mapData |-> <<>>, err |-> "unexpected EOF"]
    ELSE IF f.Magic # MagicIBSP THEN [mapData |-> <<>>, err |-> "BSP Header: Wrong magic"]
    ELSE IF f.Version # 38 THEN [mapData |-> <<>>, err |-> "BSP Header: Wrong version"]
    ELSE [mapData |-> <<f.Lumps>>, err |-> "nil"]

\* LoadQ2BSPFromPAK
LoadQ2BSPFromPAK(f) ==
    IF ~f.InPak THEN [mapData |-> <<>>, err |-> "BSP filename doesn't exist in PAK"]
    ELSE LoadQ2BSP(f)

\* the levels a file can hold: the leaves in clusters 0, 0, 1 and outside the map
BootLevels ==
    {md \in RenderLevels : /\ md.BSPLeaves[2].Cluster = 0
                           /\ md.BSPLeaves[3].Cluster = 1
                           /\ md.BSPLeaves[4].Cluster = clusterInvalidId}

\* the files: in the pak or not, too short for a header or not, with the magic
\* IBSP, IBSQ or PACK, of version 38 (Quake 2), 46 (Quake 3) or 37
Files ==
    [InPak : BOOLEAN, Readable : BOOLEAN,
     Magic : {MagicIBSP, <<73, 66, 83, 81>>, <<80, 65, 67, 75>>},
     Version : {37, 38, 46},
     Lumps : BootLevels]

\* main has no level yet
NoMapData == [NumFaces |-> 0]

InitBoot ==
    /\ file \in Files
    /\ loaded = NoLoad
    /\ mapData = NoMapData
    /\ pc = "start"
    /\ facesInCluster = EmptyMap
    /\ facesFromCluster = EmptyMap
    /\ pvs = NoPvs
    /\ treeLeaves = <<>>
    /\ walk = NoWalk
    /\ AtlasIdle
    /\ RenderIdle
    /\ CopyIdle
    /\ ExtraIdle
    /\ goarch \in GoArchs

BootFixed ==
    UNCHANGED <<file, goarch, copyVars, extraVars, facesInCluster, facesFromCluster, pvs, walk,
                atlasVars, uploads, prevLeaf, curLeaf, renderMap, build, frame>>

\* initMesh: mapData, err := q2file.LoadQ2BSPFromPAK(...)
LoadBSP ==
    /\ pc = "start"
    /\ loaded' = LoadQ2BSPFromPAK(file)
    /\ pc' = "initMesh"
    /\ UNCHANGED <<mapData, treeLeaves, oldMapTextures>>
    /\ BootFixed

\* initMesh: err != nil, log.Fatal ends the process
InitMeshFatal ==
    /\ pc = "initMesh"
    /\ loaded.err # "nil"
    /\ pc' = "exit"
    /\ UNCHANGED <<mapData, treeLeaves, loaded, oldMapTextures>>
    /\ BootFixed

\* initMesh returns the level and its textures to main
InitMeshReturn ==
    /\ pc = "initMesh"
    /\ loaded.err = "nil"
    /\ mapData' = loaded.mapData[1]
    /\ oldMapTextures' = createTextureList(loaded.mapData[1].TextureIds)
    /\ pc' = "mesh"
    /\ UNCHANGED <<treeLeaves, loaded>>
    /\ BootFixed

\* main: bspTree := NewBSPTree(mapData), then the loop
BuildTree ==
    /\ pc = "mesh"
    /\ treeLeaves' = NewBSPTree(mapData)
    /\ pc' = "loop"
    /\ UNCHANGED <<mapData, loaded, oldMapTextures>>
    /\ BootFixed

NextBoot ==
    \/ LoadBSP \/ InitMeshFatal \/ InitMeshReturn \/ BuildTree
    \/ FrameRebuild \/ FrameKeep \/ CreateFace \/ CreateReturn \/ DrawMap

SpecBoot == InitBoot /\ [][NextBoot]_vars

------------------------------------------------------------------------------
(* Claims about the loading of the level *)

BadHeader == file.Magic # MagicIBSP \/ file.Version # 38

\* C12: whenever the magic of the header is not "IBSP" or the version is not 38,
\* LoadQ2BSP returns a nil MapData together with an error, and startup aborts:
\* NewBSPTree and CreateRenderingData are never reached.
C12_BadHeaderAborts ==
    BadHeader =>
        /\ LoadQ2BSP(file).mapData = <<>>
        /\ LoadQ2BSP(file).err # "nil"
        /\ pc \in {"start", "initMesh", "exit"}
        /\ pc # "start" => loaded.mapData = <<>> /\ loaded.err # "nil"
        /\ mapData = NoMapData
        /\ treeLeaves = <<>>
        /\ build = NoBuild
        /\ renderMap = NoRenderMap

\* C12 witness: a file of the pak with the magic IBSP and the version 46 was
\* read, and the process has ended
C12_Witness ==
    /\ pc = "exit"
    /\ file.InPak /\ file.Readable
    /\ file.Magic = MagicIBSP
    /\ file.Version = 46
    /\ loaded.err = "BSP Header: Wrong version"

------------------------------------------------------------------------------
(* Claims about the polygon buffer *)

\* CreateRenderingData has just returned the RenderMap of this frame
JustBuilt == pc = "draw" /\ frame.rebuilt

\* the vertices [VertOffset, VertOffset + VertCount) of a texture
VertexRange(texture) == texture.VertOffset..(texture.VertOffset + texture.VertCount - 1)

\* C13: in the result of NewPolygonBuffer the vertices are grouped by texture
\* id: over the texture ids that have surfaces the ranges [VertOffset,
\* VertOffset + VertCount) are pairwise disjoint, in ascending order of the
\* texture id, and cover exactly the vertices 0 .. len(Buffer)/7 - 1; a range
\* holds the vertices of the surfaces of its texture; every texture id without
\* surfaces has VertCount 0.
C13_GroupedByTexture ==
    JustBuilt =>
        LET textures == renderMap.MapTextures
            surfaces == build.surfacesByTexture
            with == {t \in 1..Len(textures) : (t - 1) \in DOMAIN surfaces}
        IN /\ \A t \in 1..Len(textures) :
                IF t \in with
                THEN /\ textures[t].VertOffset >= 0
                     /\ textures[t].VertCount = Len(SurfaceVertices(surfaces[t - 1], 1))
                     /\ \A i \in VertexRange(textures[t]) :
                            renderMap.VertexBuffer[i + 1] =
                                SurfaceVertices(surfaces[t - 1], 1)[i - textures[t].VertOffset + 1]
                ELSE textures[t].VertCount = 0
           /\ \A t1, t2 \in with :
                t1 < t2 => textures[t1].VertOffset + textures[t1].VertCount
                                <= textures[t2].VertOffset
           /\ UNION {VertexRange(textures[t]) : t \in with}
                = 0..(Len(renderMap.VertexBuffer) - 1)

\* C13 witness: a buffer of the surfaces of textures 0 and 1, none of texture 2
C13_Witness ==
    /\ JustBuilt
    /\ Len(renderMap.MapTextures) = 3
    /\ renderMap.MapTextures[1].VertCount > 0
    /\ renderMap.MapTextures[2].VertCount > 0
    /\ renderMap.MapTextures[2].VertOffset = renderMap.MapTextures[1].VertCount
    /\ renderMap.MapTextures[3].VertCount = 0

------------------------------------------------------------------------------
(* Claims about NewSurface and UpdateLightmap *)

\* the loop of CreateRenderingData is about to make the surface of a face that
\* is not sky
NextSurface ==
    /\ pc = "create"
    /\ build.next < Len(build.faceIds)
    /\ At(build.faceIds, build.next) \in 0..(Len(mapData.Faces) - 1)
    /\ ~IsSky(NextTexInfo)

\* the next face has a lightmap whose computed width or height is <= 0
NextEmpty ==
    /\ NextSurface
    /\ NextTexInfo.Flags = 0
    /\ (NextDimensions.Width <= 0 \/ NextDimensions.Height <= 0)

\* the surface that the step appended
Appended ==
    LET now == build'.surfacesByTexture[mapData.TextureIds[NextTexInfo.TextureName]]
    IN now[Len(now)]

\* C14: for a face whose computed lightmap width or height is <= 0
\* UpdateLightmap does not call AllocateLightmapRect (the atlas tree is left as
\* it is, nothing is uploaded) and every vertex of the face keeps the light
\* coordinates (0.999, 0.999); every vertex of a face whose texinfo flags are
\* not zero keeps them as well.
C14_EmptyOrFlaggedKeepsSentinel ==
    /\ [][NextEmpty \/ (NextSurface /\ NextTexInfo.Flags # 0) =>
            /\ atlas' = atlas
            /\ lastAlloc' = lastAlloc
            /\ returned' = returned
            /\ uploads' = uploads
            /\ build'.next = build.next + 1
            /\ Len(Appended.TexturedVertices) = 3 * (NextFace.NumEdges - 2)
            /\ AllSentinel(Appended)]_vars
    /\ [](\A texId \in DOMAIN build.surfacesByTexture :
            \A i \in 1..Len(build.surfacesByTexture[texId]) :
                build.surfacesByTexture[texId][i].TexInfo.Flags # 0
                    => AllSentinel(build.surfacesByTexture[texId][i]))

\* C14 witness: after a face was placed in the atlas UpdateLightmap returned at
\* the check of the dimensions, for a face whose width is <= 0
C14_Witness ==
    /\ pc = "create"
    /\ build.last = "empty"
    /\ Len(returned) > 0
    /\ lastAlloc.ok
    /\ \E texId \in DOMAIN build.surfacesByTexture :
        LET made == build.surfacesByTexture[texId]
        IN /\ made[Len(made)].TexInfo.Flags = 0
           /\ AllSentinel(made[Len(made)])
           /\ Len(made) > 1
           /\ ~AllSentinel(made[1])

------------------------------------------------------------------------------
(* SpecCopy: the loop of CopyMapLightmapToTexture over the pixels *)

\* CopyMapLightmapToTexture: lightScale
lightScale == 4

RECURSIVE BitLen(_)
\* the number of binary digits of n
BitLen(n) == IF n = 0 THEN 0 ELSE 1 + BitLen(n \div 2)

RECURSIVE LongDiv(_, _, _, _)
\* the quotient q and the remainder r of n * 2^bits by d, from those of n by d
LongDiv(q, r, d, bits) ==
    IF bits = 0 THEN [q |-> q, r |-> r]
    ELSE LongDiv(2 * q + ((2 * r) \div d), (2 * r) % d, d, bits - 1)

\* IEEE 754 rounding to nearest, ties to even: q + rem/d with twiceRem = 2 * rem
RoundEven(q, twiceRem, d) ==
    IF twiceRem > d \/ (twiceRem = d /\ q % 2 = 1) THEN q + 1 ELSE q

\* the exponent e for which 255 * 2^e / max has 24 binary digits (max > 255)
QuotientExponent(max) == 23 + BitLen((max - 1) \div 255)

\* the float32 nearest to 255 * 2^e / max, from the quotient and remainder
QuotientRounded(d, max, e) == [m |-> RoundEven(d.q, 2 * d.r, max), e |-> e]

\* t := float32(255.0) / float32(max): the float32 m / 2^e
F32Div255(max) ==
    QuotientRounded(LongDiv(0, 255, max, QuotientExponent(max)), max, QuotientExponent(max))

\* the product c * m in two parts, A * 4096 + B
MulLimbs(c, m) ==
    [A |-> c * (m \div 4096) + ((c * (m % 4096)) \div 4096),
     B |-> (c * (m % 4096)) % 4096]

\* the binary digits of A * 4096 + B beyond the 24 a float32 holds
Dropped(A) == IF BitLen(A) > 12 THEN BitLen(A) - 12 ELSE 0

\* A * 4096 + B rounded to a multiple of 2^s, in units of 2^s
RoundBits(A, B, s) == RoundEven(A * Pow2(12 - s) + (B \div Pow2(s)), 2 * (B % Pow2(s)), Pow2(s))

\* int(f) of the float32 f nearest to (A * 4096 + B) / 2^e
F32ToInt(p, s, e) == RoundBits(p.A, p.B, s) \div Pow2(e - s)

\* int(float32(c) * t)
F32MulToInt(c, t) == F32ToInt(MulLimbs(c, t.m), Dropped(MulLimbs(c, t.m).A), t.e)

\* max of r and g only
ChannelMaxWithoutBlue(r, g, b) == IF r > g THEN r ELSE g

\* CopyMapLightmapToTexture: max
ChannelMax(r, g, b) ==
    IF r > g THEN (IF b > r THEN b ELSE r)
             ELSE (IF b > g THEN b ELSE g)

\* CopyMapLightmapToTexture: a component after "if max > 255 { ... }"
Rescale(c, max) == IF max > 255 THEN F32MulToInt(c, F32Div255(max)) ELSE c

\* CopyMapLightmapToTexture: r, g and b of a pixel before the conversion to uint8
ScaledPixel(r, g, b) ==
    <<Rescale(r, ChannelMax(r, g, b)), Rescale(g, ChannelMax(r, g, b)),
      Rescale(b, ChannelMax(r, g, b))>>

\* uint8(x) of an int
Uint8(x) == x % 256

\* CopyMapLightmapToTexture: the four bytes written at curByteWrite
WritePixel(px, curByteWrite, rgb) ==
    [px EXCEPT ![curByteWrite + 1] = Uint8(rgb[1]),
               ![curByteWrite + 2] = Uint8(rgb[2]),
               ![curByteWrite + 3] = Uint8(rgb[3]),
               ![curByteWrite + 4] = 255]

\* the values of the third component of the lightmaps of one pixel whose first
\* two components take every value
Blues == {0}

\* the values of the components of the other lightmaps
Shades == {0, 1, 63, 64, 200, 255}

\* the lightmaps: of one pixel, and of two pixels the first of which is dim
LightmapDatas ==
    {<<r, g, b>> : r \in 0..255, g \in 0..255, b \in Blues}
    \cup {<<r, g, b>> : r \in Shades, g \in Shades, b \in Shades}
    \cup {<<1, 2, 63, r, g, b>> : r \in {0, 255}, g \in {64, 255}, b \in {0, 200}}

\* the call lightmap.CopyMapLightmapToTexture(faceLightmapOffset, mapData.LightmapData,
\* lightmapRect, totalPixels), up to "for i := 0"
InitCopy ==
    /\ mapData = [NumFaces |-> 0]
    /\ pc = "copy"
    /\ facesInCluster = EmptyMap
    /\ facesFromCluster = EmptyMap
    /\ pvs = NoPvs
    /\ treeLeaves = <<>>
    /\ walk = NoWalk
    /\ AtlasIdle
    /\ RenderIdle
    /\ file = NoFile
    /\ loaded = NoLoad
    /\ goarch = "amd64"
    /\ ExtraIdle
    /\ lightmapData \in LightmapDatas
    /\ \E arrayOffset \in {0, 3} :
        /\ arrayOffset < Len(lightmapData)
        /\ copy = [NoCopy EXCEPT !.arrayOffset = arrayOffset,
                                 !.totalPixels = (Len(lightmapData) - arrayOffset) \div 3,
                                 !.baseIndexRead = arrayOffset]
        /\ pixels = [k \in 1..(4 * ((Len(lightmapData) - arrayOffset) \div 3)) |-> 0]

CopyFixed ==
    UNCHANGED <<mapData, facesInCluster, facesFromCluster, pvs, treeLeaves, walk, atlasVars,
                renderVars, file, loaded, goarch, lightmapData, extraVars>>

\* CopyMapLightmapToTexture: the locals after the iteration that made rgb
CopyNext(rgb) ==
    [copy EXCEPT !.i = @ + 1, !.baseIndexRead = @ + 3, !.curByteWrite = @ + 4,
                 !.r = rgb[1], !.g = rgb[2], !.b = rgb[3]]

\* CopyMapLightmapToTexture: one iteration of the loop over the pixels
CopyPixel ==
    /\ pc = "copy"
    /\ copy.i < copy.totalPixels
    /\ copy' = CopyNext(ScaledPixel(At(lightmapData, copy.baseIndexRead + 0) * lightScale,
                                    At(lightmapData, copy.baseIndexRead + 1) * lightScale,
                                    At(lightmapData, copy.baseIndexRead + 2) * lightScale))
    /\ pixels' = WritePixel(pixels, copy.curByteWrite, <<copy'.r, copy'.g, copy'.b>>)
    /\ UNCHANGED pc
    /\ CopyFixed

\* CopyMapLightmapToTexture: lightmap.updateSubTexture(destinationNode, pixels)
CopyReturn ==
    /\ pc = "copy"
    /\ copy.i >= copy.totalPixels
    /\ pc' = "copied"
    /\ UNCHANGED <<copy, pixels>>
    /\ CopyFixed

NextCopy == CopyPixel \/ CopyReturn

SpecCopy == InitCopy /\ [][NextCopy]_vars

------------------------------------------------------------------------------
(* Claims about CopyMapLightmapToTexture *)

\* the three bytes of the lightmap that iteration k (from 0) reads
SourcePixel(k) == SubSeq(lightmapData, copy.arrayOffset + 3 * k + 1, copy.arrayOffset + 3 * k + 3)

\* the four bytes that iteration k (from 0) wrote
WrittenPixel(k) == SubSeq(pixels, 4 * k + 1, 4 * k + 4)

\* no component of the source pixel, scaled, exceeds 255
Dim(src) == \A c \in 1..3 : src[c] * lightScale <= 255

\* C15: for every source pixel (each component 0..255) the three colour
\* components that CopyMapLightmapToTexture computes lie in 0..255 as integers
\* before the conversion to uint8, so the conversion changes nothing; the
\* fourth byte written is 255; when no scaled component exceeds 255 the
\* colour written is the source colour times the brightness scale 4.
C15_ChannelsInRange ==
    copy.i > 0 =>
        /\ {copy.r, copy.g, copy.b} \subseteq 0..255
        /\ WrittenPixel(copy.i - 1) = <<copy.r, copy.g, copy.b, 255>>
        /\ \A k \in 0..(copy.i - 1) :
            /\ WrittenPixel(k)[4] = 255
            /\ Dim(SourcePixel(k)) =>
                    \A c \in 1..3 : WrittenPixel(k)[c] = SourcePixel(k)[c] * lightScale

\* C15 witness: two pixels were copied; the first is dim and not black, the
\* second has a component that was brought down to 255 and another that was
\* brought down to a value in between
C15_Witness ==
    /\ pc = "copied"
    /\ copy.i = 2
    /\ Dim(SourcePixel(0))
    /\ WrittenPixel(0)[3] > 0
    /\ ~Dim(SourcePixel(1))
    /\ \E c, d \in 1..3 :
        /\ SourcePixel(1)[c] * lightScale > 255
        /\ WrittenPixel(1)[c] = 255
        /\ SourcePixel(1)[d] * lightScale > 255
        /\ WrittenPixel(1)[d] \in 1..254

------------------------------------------------------------------------------
(* Claims about the steps of findLeafNode *)

\* the node the walk is at, and its plane
WalkNode == At(mapData.Nodes, walk.nodeId)

WalkPlane == At(mapData.Planes, WalkNode.Plane)

\* the signed distance as C16 states it: for an axial plane the coordinate of
\* the position along the axis of the plane's type, less plane.Distance
SignedDistance(plane, position) ==
    IF plane.Type \in {0, 1, 2}
    THEN At(position, plane.Type) - plane.Distance
    ELSE At(position, 0) * At(plane.Normal, 0) + At(position, 1) * At(plane.Normal, 1)
         + At(position, 2) * At(plane.Normal, 2) - plane.Distance

\* C16: at each node findLeafNode goes to the back child exactly when the signed
\* distance is strictly negative and to the front child otherwise, so a position
\* on the plane (distance 0) goes to the front child; for a plane of type 0, 1
\* or 2 the signed distance is position[type] - plane.Distance, whatever the
\* normal is.
C16_BackOnlyWhenNegative ==
    [][pc = "walking" /\ walk.nodeId >= 0 =>
            walk'.nodeId = IF SignedDistance(WalkPlane, walk.position) < 0
                           THEN WalkNode.BackChild
                           ELSE WalkNode.FrontChild]_vars

\* C16 witness: from a position on the plane of the start node, a plane of type
\* 0 whose normal is along another axis, the walk took the front child
C16_Witness ==
    /\ pc = "walking"
    /\ walk.nodeId # walk.startNode
    /\ LET node == At(mapData.Nodes, walk.startNode)
           plane == At(mapData.Planes, node.Plane)
       IN /\ plane.Type = 0
          /\ At(plane.Normal, 0) = 0
          /\ At(walk.position, 0) - plane.Distance = 0
          /\ At(walk.position, 1) * At(plane.Normal, 1) - plane.Distance # 0
          /\ node.FrontChild # node.BackChild
          /\ walk.nodeId = node.FrontChild

------------------------------------------------------------------------------
(* Claims about the literal bytes of the visibility rows *)

RECURSIVE MaskFaces(_, _, _)
\* the faces of the clusters counter + i, ..., counter + 7 whose bit is set in
\* the byte and that have an entry in facesInCluster, cluster after cluster
MaskFaces(byte, counter, i) ==
    IF i > 7 THEN <<>>
    ELSE (IF (byte \div Pow2(i)) % 2 = 1 /\ ClusterId(counter + i) \in DOMAIN facesInCluster
          THEN facesInCluster[ClusterId(counter + i)]
          ELSE <<>>)
         \o MaskFaces(byte, counter, i + 1)

\* the loop of getFacesFromCluster is at a byte that is not zero
AtLiteral ==
    /\ pc = "decode"
    /\ PvsMore(mapData, pvs)
    /\ mapData.VisibilityData[pvs.v] # 0

\* C17: a byte of a visibility row that is not zero is a mask over the 8
\* cluster ids from the counter on, bit 0 for the counter and bit 7 for the
\* counter + 7: the faces of cluster counter + i are added to the visible
\* faces exactly when bit i is set and the cluster has an entry in
\* facesInCluster; the counter moves on by 8 and the cursor by 1 whichever
\* bits are set.
C17_LiteralByteIsMask ==
    [][AtLiteral =>
            /\ pvs'.otherClusterIndex = pvs.otherClusterIndex + 8
            /\ pvs'.v = pvs.v + 1
            /\ pvs'.cluster = pvs.cluster
            /\ pvs'.visibleFaces =
                    pvs.visibleFaces
                    \o MaskFaces(mapData.VisibilityData[pvs.v], pvs.otherClusterIndex, 0)]_vars

\* C17 witness: the first byte of the row of cluster 0 was a mask with bit 0
\* clear and bit 1 set, and the faces of cluster 1 were added
C17_Witness ==
    /\ pc = "decode"
    /\ pvs.cluster = 0
    /\ pvs.v = At(mapData.VisibilityOffsets, pvs.cluster) + 1
    /\ pvs.otherClusterIndex = 8
    /\ mapData.VisibilityData[pvs.v - 1] = 2
    /\ {0, 1} \subseteq DOMAIN facesInCluster
    /\ facesInCluster[1] # <<>>
    /\ pvs.visibleFaces = facesInCluster[0] \o facesInCluster[1]

------------------------------------------------------------------------------
(* Claims about what DrawMap is given *)

\* CreateRenderingData: the atlas, the uploads and surfacesByTexture after the
\* iteration that made a surface
Accumulate(acc, made) ==
    [Root |-> made.lit.Root,
     uploads |-> acc.uploads \o made.lit.uploads,
     surfacesByTexture |-> AppendSurface(acc.surfacesByTexture, made.texId, made.lit.surface)]

RECURSIVE CreateFrom(_, _, _, _, _)
\* CreateRenderingData: the loop over faceIds from the i-th on
CreateFrom(md, mapTextures, faceIds, i, acc) ==
    IF i > Len(faceIds) THEN acc
    ELSE IF IsSky(At(md.TexInfos, At(md.Faces, faceIds[i]).TextureInfo))
    THEN CreateFrom(md, mapTextures, faceIds, i + 1, acc)
    ELSE CreateFrom(md, mapTextures, faceIds, i + 1,
                    Accumulate(acc, CreateSurface(md, mapTextures, acc.Root, faceIds[i])))

\* CreateRenderingData: the RenderMap made of the lightmap and the polygon buffer
RenderMapOf(acc, polygonBuffer) ==
    [MapLightmap |-> <<[Root |-> acc.Root, uploads |-> acc.uploads]>>,
     MapTextures |-> polygonBuffer.MapTextures,
     VertexBuffer |-> polygonBuffer.Buffer]

\* CreateRenderingData: from the end of the loop on
RenderMapFrom(acc, mapTextures) ==
    RenderMapOf(acc, NewPolygonBuffer(acc.surfacesByTexture, mapTextures))

\* CreateRenderingData, as one call: lightmap := NewLightmap() is a new atlas
CreateRenderingData(md, mapTextures, faceIds) ==
    RenderMapFrom(CreateFrom(md, mapTextures, faceIds, 1,
                             [Root |-> NewLightmapRoot, uploads |-> <<>>,
                              surfacesByTexture |-> EmptyMap]),
                  mapTextures)

\* C18: in every frame in which the leaf located is another one than the leaf
\* of the frame before, the vertex buffer and the atlas that DrawMap is given
\* are the ones CreateRenderingData builds of the face list of the new leaf,
\* starting from a new atlas tree: never data left of an earlier leaf.
C18_DrawsDataOfNewLeaf ==
    pc = "draw" /\ frame.located # frame.prev =>
        renderMap = CreateRenderingData(mapData, MapTextures,
                                        At(treeLeaves, frame.located).Faces)

------------------------------------------------------------------------------
(* Claims about the nodes of the atlas tree *)

RECURSIVE PathsOf(_)
\* the nodes of the tree under (and with) a node, each as the path to it
PathsOf(node) ==
    {<<>>} \cup UNION {{<<i - 1>> \o p : p \in PathsOf(node.Nodes[i])} : i \in 1..Len(node.Nodes)}

\* what C19 says of the node at path p over one step
NodeKept(p) ==
    /\ p \in PathsOf(atlas')
    /\ RectOf(NodeAt(atlas', p)) = RectOf(NodeAt(atlas, p))
    /\ Len(NodeAt(atlas, p).Nodes) > 0 =>
            Len(NodeAt(atlas', p).Nodes) = Len(NodeAt(atlas, p).Nodes)
    /\ NodeAt(atlas, p).Filled =>
            /\ NodeAt(atlas', p).Filled
            /\ ~(lastAlloc'.ok /\ lastAlloc'.path = p)

\* C19: the atlas tree never shrinks and gives no space back: over any sequence
\* of calls of AllocateLightmapRect the X, Y, Width and Height of a node stay
\* as they were made, a node that has children keeps its two children, and a
\* node that is Filled stays Filled and is not returned by a later call.
C19_TreeNeverShrinks ==
    [][\A p \in PathsOf(atlas) : NodeKept(p)]_vars

\* C19 witness: a call returned a node two levels down in a tree that holds
\* other filled nodes, after at least two earlier allocations
C19_Witness ==
    /\ pc = "atlas"
    /\ Len(returned) >= 3
    /\ lastAlloc.ok
    /\ Len(lastAlloc.path) >= 2
    /\ \E p, q \in PathsOf(atlas) \ {lastAlloc.path} :
            p # q /\ NodeAt(atlas, p).Filled /\ NodeAt(atlas, q).Filled

\* the nodes that the step made
Created == PathsOf(atlas') \ PathsOf(atlas)

\* the node that the call of the step returned
Returned == NodeAt(atlas', lastAlloc'.path)

\* C20: when AllocateLightmapRect splits a free leaf, the call on child 0
\* succeeds: child 0 has the width or the height asked for, so that after at
\* most two splits (at most four nodes made in a call) a node of exactly the
\* width and height asked for is returned, marked Filled; no call fails after
\* a split.
C20_SplitSucceeds ==
    [][/\ Cardinality(Created) \in {0, 2, 4}
       /\ Created # {} =>
            /\ lastAlloc'.ok
            /\ lastAlloc'.path \in Created
            /\ \A p \in Created :
                    p[Len(p)] = 0 =>
                        \/ NodeAt(atlas', p).Width = lastAlloc'.width
                        \/ NodeAt(atlas', p).Height = lastAlloc'.height
       /\ lastAlloc'.ok =>
            /\ Returned.Width = lastAlloc'.width
            /\ Returned.Height = lastAlloc'.height
            /\ Returned.Filled
            /\ Returned.Nodes = <<>>]_vars

\* C20 witness: a call split a leaf twice and returned child 0 of child 0; the
\* two other nodes it made are free leaves
C20_Witness ==
    /\ pc = "atlas"
    /\ Len(returned) >= 2
    /\ lastAlloc.ok
    /\ Len(lastAlloc.path) >= 3
    /\ LET n == Len(lastAlloc.path)
           up == SubSeq(lastAlloc.path, 1, n - 2)
       IN /\ SubSeq(lastAlloc.path, n - 1, n) = <<0, 0>>
          /\ NodeAt(atlas, up \o <<1>>).Nodes = <<>>
          /\ ~NodeAt(atlas, up \o <<1>>).Filled
          /\ NodeAt(atlas, up \o <<0, 1>>).Nodes = <<>>
          /\ ~NodeAt(atlas, up \o <<0, 1>>).Filled
          /\ NodeAt(atlas, up \o <<0, 1>>).Width < NodeAt(atlas, up).Width
          /\ NodeAt(atlas, up \o <<1>>).Height < NodeAt(atlas, up).Height

------------------------------------------------------------------------------
(* Claims about the order and the shape of the search of AllocateLightmapRect *)

\* the paths of a sequence, each after the step to child c
Prefixed(c, paths) == [i \in 1..Len(paths) |-> <<c>> \o paths[i]]

RECURSIVE LeafPaths(_)
\* the leaves under (and with) a node, depth first, child 0 before child 1,
\* each as the path to it
LeafPaths(node) ==
    IF Len(node.Nodes) = 0 THEN <<(<<>>)>>
    ELSE Prefixed(0, LeafPaths(node.Nodes[1])) \o Prefixed(1, LeafPaths(node.Nodes[2]))

\* the leaf is free and at least as large as the request in both dimensions
Roomy(leaf, width, height) ==
    ~leaf.Filled /\ leaf.Width >= width /\ leaf.Height >= height

\* the places in a sequence of leaves of the leaves with room for the request
RoomyPlaces(root, leaves, width, height) ==
    {i \in 1..Len(leaves) : Roomy(NodeAt(root, leaves[i]), width, height)}

\* the least of a set of places
FirstPlace(places) == CHOOSE i \in places : \A j \in places : i <= j

\* path p leads to the node at path q or to a node under it
Under(p, q) == Len(p) >= Len(q) /\ SubSeq(p, 1, Len(q)) = q

\* what C21 says of a call that returned the node at path got (ok) or nil, for
\* the leaves of the tree before the call and the places of those with room
FirstFit(root, leaves, places, ok, got, after) ==
    IF places = {}
    THEN ~ok
    ELSE /\ ok
         /\ Under(got, leaves[FirstPlace(places)])
         /\ NodeAt(after, got).X = NodeAt(root, leaves[FirstPlace(places)]).X
         /\ NodeAt(after, got).Y = NodeAt(root, leaves[FirstPlace(places)]).Y

\* C21: AllocateLightmapRect is first fit in the order of the tree: at a node
\* with children child 0 is tried first and child 1 only if child 0 fails, so
\* the rectangle returned is taken from the first leaf, depth first with child
\* 0 before child 1, that is free and at least as large as the request in
\* both dimensions (at that leaf's corner); nil is returned when there is no
\* such leaf.
C21_FirstFit ==
    [][FirstFit(atlas, LeafPaths(atlas),
                RoomyPlaces(atlas, LeafPaths(atlas), lastAlloc'.width, lastAlloc'.height),
                lastAlloc'.ok, lastAlloc'.path, atlas')]_vars

\* C21 witness: the node returned lies under child 1 of the root, after a free
\* leaf under child 0 that is too small for the request
C21_Witness ==
    /\ pc = "atlas"
    /\ lastAlloc.ok
    /\ Len(lastAlloc.path) >= 1
    /\ lastAlloc.path[1] = 1
    /\ \E i \in 1..Len(LeafPaths(atlas)) :
            /\ Len(LeafPaths(atlas)[i]) >= 1
            /\ LeafPaths(atlas)[i][1] = 0
            /\ ~NodeAt(atlas, LeafPaths(atlas)[i]).Filled
            /\ ~Roomy(NodeAt(atlas, LeafPaths(atlas)[i]), lastAlloc.width, lastAlloc.height)

\* the nodes that the step split: they have children after it and had none
\* before, or were made by it
SplitBy(before, after) ==
    {p \in PathsOf(after) :
        /\ Len(NodeAt(after, p).Nodes) > 0
        /\ p \in PathsOf(before) => Len(NodeAt(before, p).Nodes) = 0}

\* what C22 says of the children of a node split for a request
SplitAsStated(node, width, height) ==
    IF node.Width - width > node.Height - height
    THEN /\ RectOf(node.Nodes[1]) =
                [X |-> node.X, Y |-> node.Y, Width |-> width, Height |-> node.Height]
         /\ RectOf(node.Nodes[2]) =
                [X |-> node.X + width, Y |-> node.Y, Width |-> node.Width - width,
                 Height |-> node.Height]
    ELSE /\ RectOf(node.Nodes[1]) =
                [X |-> node.X, Y |-> node.Y, Width |-> node.Width, Height |-> height]
         /\ RectOf(node.Nodes[2]) =
                [X |-> node.X, Y |-> node.Y + height, Width |-> node.Width,
                 Height |-> node.Height - height]

\* C22: a free leaf larger than the request is split along the axis with the
\* greater slack: if node.Width - width > node.Height - height, child 0 is
\* (X, Y, width, node.Height) and child 1 is (X + width, Y, node.Width - width,
\* node.Height); otherwise, the same slack both ways included, child 0 is (X, Y,
\* node.Width, height) and child 1 is (X, Y + height, node.Width,
\* node.Height - height).
C22_SplitByGreaterSlack ==
    [][\A p \in SplitBy(atlas, atlas') :
            /\ Len(NodeAt(atlas', p).Nodes) = 2
            /\ SplitAsStated(NodeAt(atlas', p), lastAlloc'.width, lastAlloc'.height)]_vars

\* C22 witness: a request of 256 x 256 split the new root, with the same slack
\* both ways, by the height, and then child 0, 512 x 256, by the width
C22_Witness ==
    /\ pc = "atlas"
    /\ Len(returned) = 1
    /\ lastAlloc.ok
    /\ lastAlloc.width = 256 /\ lastAlloc.height = 256
    /\ lastAlloc.path = <<0, 0>>
    /\ RectOf(atlas.Nodes[1]) = [X |-> 0, Y |-> 0, Width |-> 512, Height |-> 256]
    /\ RectOf(atlas.Nodes[2]) = [X |-> 0, Y |-> 256, Width |-> 512, Height |-> 256]
    /\ RectOf(atlas.Nodes[1].Nodes[2]) = [X |-> 256, Y |-> 0, Width |-> 256, Height |-> 256]

------------------------------------------------------------------------------
(* Claims about the lists of getFacesFromCluster *)

\* a list of numbers in strictly ascending order
StrictlyAscending(list) == \A i \in 1..(Len(list) - 1) : list[i] < list[i + 1]

\* C23: for every cluster other than the sentinel the face list that
\* getFacesFromCluster makes is strictly ascending: no face index is there
\* twice and the list is sorted by number, also when a face belongs to several
\* leaves or to several visible clusters.
C23_FaceListsStrictlyAscending ==
    /\ clusterInvalidId \notin DOMAIN facesFromCluster
    /\ \A c \in DOMAIN facesFromCluster : StrictlyAscending(facesFromCluster[c])

\* C23 witness: the list of a cluster was stored whose visible faces, as the
\* row gave them, hold a face more than once and are not in order
C23_Witness ==
    /\ pc = "clusters"
    /\ pvs.cluster \in DOMAIN facesFromCluster
    /\ Len(facesFromCluster[pvs.cluster]) >= 2
    /\ Len(pvs.visibleFaces) > Len(facesFromCluster[pvs.cluster])
    /\ ~StrictlyAscending(pvs.visibleFaces)
    /\ \E i \in 1..(Len(pvs.visibleFaces) - 1) : pvs.visibleFaces[i] > pvs.visibleFaces[i + 1]

------------------------------------------------------------------------------
(* SpecFan: getAllFaceVertices called on one face *)

\* six vertices along x, in halves
FanVertices == [v \in 1..6 |-> <<Half(v - 1), 0, 0>>]

\* edge e joins vertex e to vertex e + 1
FanEdges == [e \in 1..5 |-> [V1 |-> e - 1, V2 |-> e]]

\* the faces: FirstEdge and NumEdges, of 2 to 5 edges within 5 face edges
FanFaces ==
    {[FirstEdge |-> first, NumEdges |-> n, TextureInfo |-> 0, LightmapOffset |-> 0] :
        <<first, n>> \in {<<0, 3>>, <<0, 4>>, <<0, 5>>, <<1, 3>>, <<1, 4>>, <<2, 3>>,
                          <<0, 2>>, <<3, 2>>}}

\* levels of one face whose face edges refer to edges forwards and backwards
FanLevels ==
    {[NumFaces |-> 1,
      Vertices |-> FanVertices,
      Edges |-> FanEdges,
      FaceEdges |-> faceEdges,
      Faces |-> <<face>>] :
        faceEdges \in [1..5 -> {-4, -2, 0, 1, 2}], face \in FanFaces}

InitFan ==
    /\ mapData \in FanLevels
    /\ pc = "face"
    /\ facesInCluster = EmptyMap
    /\ facesFromCluster = EmptyMap
    /\ pvs = NoPvs
    /\ treeLeaves = <<>>
    /\ walk = NoWalk
    /\ AtlasIdle
    /\ RenderIdle
    /\ file = NoFile
    /\ loaded = NoLoad
    /\ goarch = "amd64"
    /\ CopyIdle
    /\ fan = <<>>
    /\ measure = NoMeasure
    /\ InputIdle

\* faceVertices := getAllFaceVertices(mapData, faceInfo)
FanFace ==
    /\ pc = "face"
    /\ fan' = getAllFaceVertices(mapData, At(mapData.Faces, 0))
    /\ pc' = "fanned"
    /\ UNCHANGED <<mapData, facesInCluster, facesFromCluster, pvs, treeLeaves, walk, atlasVars,
                   renderVars, file, loaded, goarch, copyVars, measure, inputVars>>

NextFan == FanFace

SpecFan == InitFan /\ [][NextFan]_vars

------------------------------------------------------------------------------
(* Claims about getAllFaceVertices *)

\* the point p(j) of the face: a face edge that is not negative gives V1 of
\* its edge, a negative one V2 of the edge of its absolute value
FacePoint(face, j) ==
    IF At(mapData.FaceEdges, face.FirstEdge + j) >= 0
    THEN At(mapData.Vertices, At(mapData.Edges, At(mapData.FaceEdges, face.FirstEdge + j)).V1)
    ELSE At(mapData.Vertices, At(mapData.Edges, -At(mapData.FaceEdges, face.FirstEdge + j)).V2)

\* what C24 says of the vertices made of a face
FanOf(face, vertices) ==
    face.NumEdges >= 3 =>
        /\ Len(vertices) = 3 * (face.NumEdges - 2)
        /\ \A k \in 0..(face.NumEdges - 3) :
                /\ At(vertices, 3 * k) = FacePoint(face, 0)
                /\ At(vertices, 3 * k + 1) = FacePoint(face, k + 1)
                /\ At(vertices, 3 * k + 2) = FacePoint(face, k + 2)

\* C24: getAllFaceVertices makes a fan of triangles over the points p0 ..
\* p(n-1) of a face, read from the n face edges from FirstEdge on: for n >= 3
\* it returns exactly 3 * (n - 2) vertices, triangle k being (p0, p(k+1),
\* p(k+2)); a face edge that is not negative gives the point Edges[e].V1, a
\* negative one Edges[-e].V2.
C24_TriangleFan ==
    pc = "fanned" => FanOf(At(mapData.Faces, 0), fan)

\* C24 witness: the three triangles of a face of five edges, whose face edges
\* are negative and not negative, and whose points p1 .. p4 differ from p0
C24_Witness ==
    /\ pc = "fanned"
    /\ At(mapData.Faces, 0).NumEdges = 5
    /\ Len(fan) = 9
    /\ \E i, j \in 0..4 : At(mapData.FaceEdges, i) < 0 /\ At(mapData.FaceEdges, j) > 0
    /\ At(fan, 0) = At(fan, 3) /\ At(fan, 3) = At(fan, 6)
    /\ At(fan, 2) = At(fan, 4)
    /\ At(fan, 5) = At(fan, 7)
    /\ Cardinality({At(fan, 0), At(fan, 1), At(fan, 2), At(fan, 5), At(fan, 8)}) = 5

------------------------------------------------------------------------------
(* Claims about the calls that return nil *)

\* C25: a call of AllocateLightmapRect that returns nil leaves the whole tree
\* of the atlas as it was: no node is split and no Filled is set by it.
C25_NilLeavesTree ==
    [][~lastAlloc'.ok => atlas' = atlas]_vars

\* C25 witness: a request no larger than the atlas was refused by a tree that
\* has been split and still holds a leaf that is free, each free leaf being
\* too narrow or too low for it
C25_Witness ==
    /\ pc = "atlas"
    /\ ~lastAlloc.ok
    /\ lastAlloc.width \in 1..LIGHTMAP_SIZE
    /\ lastAlloc.height \in 1..LIGHTMAP_SIZE
    /\ Len(atlas.Nodes) > 0
    /\ \E p \in Range(LeafPaths(atlas)) : ~NodeAt(atlas, p).Filled
    /\ \A p \in Range(LeafPaths(atlas)) :
            NodeAt(atlas, p).Filled \/ ~Roomy(NodeAt(atlas, p), lastAlloc.width, lastAlloc.height)

------------------------------------------------------------------------------
(* Claims about the RenderMap that DrawMap is given *)

\* C26: DrawMap is never called with a RenderMap whose MapLightmap is nil: in
\* every frame, the first one and the frames whose leaf has no faces
\* included, the RenderMap given to it was made by CreateRenderingData.
C26_DrawMapGivenBuiltRenderMap ==
    pc = "draw" => renderMap.MapLightmap # <<>>

------------------------------------------------------------------------------
(* Claims about a cluster's own faces *)

\* C27: for every cluster but the sentinel the faces of facesInCluster[c] are
\* all in facesFromCluster[c], whether the bit of the cluster itself is set in
\* its visibility row or not.
C27_OwnFacesVisible ==
    \A c \in DOMAIN facesFromCluster :
        /\ c # clusterInvalidId
        /\ c \in DOMAIN facesInCluster
        /\ Range(facesInCluster[c]) \subseteq Range(facesFromCluster[c])

\* C27 witness: the row of cluster 0, in a level of at most 8 clusters, is one
\* literal byte with bit 0 clear and another bit set, cluster 1 has faces,
\* and cluster 0 has a face that no other cluster has: it is in
\* facesFromCluster[0]
C27_Witness ==
    /\ 0 \in DOMAIN facesFromCluster
    /\ numClusters(mapData) <= 8
    /\ mapData.VisibilityData[At(mapData.VisibilityOffsets, 0)] % 2 = 0
    /\ mapData.VisibilityData[At(mapData.VisibilityOffsets, 0)] # 0
    /\ \E f \in Range(facesInCluster[0]) :
            /\ \A c \in DOMAIN facesInCluster \ {0} : f \notin Range(facesInCluster[c])
            /\ f \in Range(facesFromCluster[0])
    /\ 1 \in DOMAIN facesInCluster
    /\ facesInCluster[1] # <<>>

------------------------------------------------------------------------------
(* SpecDims: getLightmapDimensions called on one list of vertices *)

\* the vertices: x from both sides of zero and of multiples of 16, whole and
\* with a half, or NaN; y likewise out of fewer values
DimsVertices ==
    {<<x, y, 0>> : x \in {Half(-33), -33, Half(-16), -1, 0, 1, Half(16), 33, NaN},
                   y \in {0, 33, NaN}}

\* the lists of one to three vertices
DimsLists == UNION {[1..n -> DimsVertices] : n \in 1..3}

InitDims ==
    /\ mapData = [NumFaces |-> 0]
    /\ pc = "vertices"
    /\ facesInCluster = EmptyMap
    /\ facesFromCluster = EmptyMap
    /\ pvs = NoPvs
    /\ treeLeaves = <<>>
    /\ walk = NoWalk
    /\ AtlasIdle
    /\ RenderIdle
    /\ file = NoFile
    /\ loaded = NoLoad
    /\ goarch \in GoArchs
    /\ CopyIdle
    /\ fan = <<>>
    /\ InputIdle
    /\ \E faceVertices \in DimsLists, t \in {1, 2} :
            measure = [faceVertices |-> faceVertices, texInfo |-> RenderTexInfos[t],
                       lightmapDimensions |-> <<>>]

\* lightmapDimensions := getLightmapDimensions(faceVertices, texInfo)
Measure ==
    /\ pc = "vertices"
    /\ measure' = [measure EXCEPT !.lightmapDimensions =
                        getLightmapDimensions(measure.faceVertices, measure.texInfo)]
    /\ pc' = "measured"
    /\ UNCHANGED <<mapData, facesInCluster, facesFromCluster, pvs, treeLeaves, walk, atlasVars,
                   renderVars, file, loaded, goarch, copyVars, fan, inputVars>>

NextDims == Measure

SpecDims == InitDims /\ [][NextDims]_vars

------------------------------------------------------------------------------
(* Claims about getLightmapDimensions *)

\* the floored texture coordinates (axis 1 is U, 2 is V) of the vertices measured
FlooredCoordinates(axis) ==
    {Floor(getTextureUV(measure.faceVertices[i], measure.texInfo)[axis]) :
        i \in 1..Len(measure.faceVertices)}

\* the span of a set of numbers, largest minus smallest
SpanOfSet(set) ==
    (CHOOSE a \in set : \A b \in set : b <= a) - (CHOOSE a \in set : \A b \in set : a <= b)

\* the number of 16-unit steps that cover a span given in halves
StepsOf16(span) == (span + 31) \div 32

\* a count of texels is right for the floored coordinates of an axis: at
\* least 1, one more than the steps of 16 in the floored span, or two more
TexelsFor(texels, axis) ==
    /\ texels >= 1
    /\ texels >= StepsOf16(SpanOfSet(FlooredCoordinates(axis))) + 1
    /\ texels <= StepsOf16(SpanOfSet(FlooredCoordinates(axis))) + 2

\* C28, as stated: for every list of vertices that is not empty
\* getLightmapDimensions returns Width >= 1 and Height >= 1.
C28_AtLeastOneTexel ==
    pc = "measured" =>
        /\ measure.lightmapDimensions.Width >= 1
        /\ measure.lightmapDimensions.Height >= 1

\* C28, amended: along an axis where no texture coordinate of the list is NaN
\* getLightmapDimensions returns at least 1 texel, and each 16 units of
\* floored span add at most one texel; where the first vertex is not NaN the
\* count is at least 1 whatever the other vertices are.
C28_AtLeastOneTexelOfNumbers ==
    pc = "measured" =>
        /\ NaN \notin FlooredCoordinates(1) =>
                TexelsFor(measure.lightmapDimensions.Width, 1)
        /\ NaN \notin FlooredCoordinates(2) =>
                TexelsFor(measure.lightmapDimensions.Height, 2)
        /\ Floor(getTextureUV(measure.faceVertices[1], measure.texInfo)[1]) # NaN =>
                measure.lightmapDimensions.Width >= 1
        /\ Floor(getTextureUV(measure.faceVertices[1], measure.texInfo)[2]) # NaN =>
                measure.lightmapDimensions.Height >= 1

\* C28 witness: three vertices without a NaN, of a floored span of 49 units
\* in U from a negative coordinate, measured as 5 texels by 3
C28_Witness ==
    /\ pc = "measured"
    /\ Len(measure.faceVertices) = 3
    /\ NaN \notin FlooredCoordinates(1) \cup FlooredCoordinates(2)
    /\ SpanOfSet(FlooredCoordinates(1)) = Half(49)
    /\ \E f \in FlooredCoordinates(1) : f < 0
    /\ measure.lightmapDimensions.Width = 5
    /\ measure.lightmapDimensions.Height = 3

------------------------------------------------------------------------------
(* Claims about the textures that NewPolygonBuffer is given *)

------------------------------------------------------------------------------
(* SpecInput: the cursor callbacks of glfw.PollEvents and the frames *)

\* a variant of updateCursor that leaves the buffered change as it is
updateCursorKeepsBuffered(h) ==
    [h EXCEPT !.cursorChange = h.bufferedCursorChange,
              !.cursor = h.cursorLast]

\* InputHandler.updateCursor
updateCursor(h) ==
    [h EXCEPT !.cursorChange = h.bufferedCursorChange,
              !.cursor = h.cursorLast,
              !.bufferedCursorChange = <<0, 0>>]

\* InputHandler.mouseCallback: the handler after 'if handler.firstCursorAction'
FirstCursorAction(h, xPos, yPos) ==
    IF h.firstCursorAction
    THEN [h EXCEPT !.cursorLast = <<xPos, yPos>>, !.firstCursorAction = FALSE]
    ELSE h

\* InputHandler.mouseCallback: the two sums and cursorLast
BufferCursorChange(h, xPos, yPos) ==
    [h EXCEPT !.bufferedCursorChange = <<@[1] + (xPos - h.cursorLast[1]),
                                         @[2] + (h.cursorLast[2] - yPos)>>,
              !.cursorLast = <<xPos, yPos>>]

\* InputHandler.mouseCallback
mouseCallback(h, xPos, yPos) ==
    BufferCursorChange(FirstCursorAction(h, xPos, yPos), xPos, yPos)

\* InputHandler.GetCursorChange
GetCursorChange(h) == h.cursorChange

\* the positions of the cursor that glfw reports, whole numbers of pixels
CursorPositions == {<<1, 0>>, <<4, 3>>, <<-2, 3>>, <<1, 5>>}

\* the change from one position to the next: y grows downwards on the screen
CursorDelta(from, to) == <<to[1] - from[1], from[2] - to[2]>>

InitInput ==
    /\ mapData = [NumFaces |-> 0]
    /\ pc = "poll"
    /\ facesInCluster = EmptyMap
    /\ facesFromCluster = EmptyMap
    /\ pvs = NoPvs
    /\ treeLeaves = <<>>
    /\ walk = NoWalk
    /\ AtlasIdle
    /\ RenderIdle
    /\ file = NoFile
    /\ loaded = NoLoad
    /\ goarch = "amd64"
    /\ CopyIdle
    /\ fan = <<>>
    /\ measure = NoMeasure
    /\ handler = NewInputHandler
    /\ mouse = NoMouse

InputFixed ==
    UNCHANGED <<mapData, facesInCluster, facesFromCluster, pvs, treeLeaves, walk, atlasVars,
                renderVars, file, loaded, goarch, copyVars, fan, measure>>

\* startFrame, glfw.PollEvents: glfw calls mouseCallback with a position
MouseMoved ==
    /\ pc = "poll"
    /\ Len(mouse.deltas) < MaxEvents
    /\ \E position \in CursorPositions :
            /\ handler' = mouseCallback(handler, position[1], position[2])
            /\ mouse' = [mouse EXCEPT
                            !.last = position,
                            !.pending = Append(@, CursorDelta(mouse.last, position)),
                            !.deltas = Append(@, CursorDelta(mouse.last, position))]
    /\ UNCHANGED pc
    /\ InputFixed

\* startFrame, from the return of glfw.PollEvents on: inputHandler.updateCursor()
StartFrame ==
    /\ pc = "poll"
    /\ Len(mouse.reported) < MaxFrames
    /\ handler' = updateCursor(handler)
    /\ mouse' = [mouse EXCEPT !.pending = <<>>]
    /\ pc' = "frame"
    /\ InputFixed

\* the rest of the frame: the camera reads GetCursorChange
ReadCursorChange ==
    /\ pc = "frame"
    /\ mouse' = [mouse EXCEPT !.reported = Append(@, GetCursorChange(handler))]
    /\ pc' = "poll"
    /\ UNCHANGED handler
    /\ InputFixed

NextInput == MouseMoved \/ StartFrame \/ ReadCursorChange

SpecInput == InitInput /\ [][NextInput]_vars

------------------------------------------------------------------------------
(* Claims about the changes of the cursor *)

RECURSIVE VecSum(_)
\* the sum of a sequence of changes
VecSum(changes) ==
    IF changes = <<>> THEN <<0, 0>>
    ELSE <<Head(changes)[1] + VecSum(Tail(changes))[1],
           Head(changes)[2] + VecSum(Tail(changes))[2]>>

\* the sum of two changes
VecAdd(a, b) == <<a[1] + b[1], a[2] + b[2]>>

\* C30: every change of the cursor that mouseCallback receives is returned by
\* GetCursorChange in exactly one frame: updateCursor publishes the sum of
\* the changes since the updateCursor before it and sets the sum kept to
\* zero, so that a frame without an event reads a change of zero and no
\* change is lost or counted twice, however callbacks and frames alternate.
C30_EveryDeltaInOneFrame ==
    /\ [][pc = "poll" /\ pc' = "frame" =>
            /\ GetCursorChange(handler') = VecSum(mouse.pending)
            /\ handler'.bufferedCursorChange = <<0, 0>>]_vars
    /\ [](pc = "poll" =>
            /\ handler.bufferedCursorChange = VecSum(mouse.pending)
            /\ VecAdd(VecSum(mouse.reported), VecSum(mouse.pending)) = VecSum(mouse.deltas))
    /\ [](pc = "frame" =>
            VecAdd(VecSum(mouse.reported), GetCursorChange(handler)) = VecSum(mouse.deltas))

\* C30 witness: three frames have read a change: one of them the sum of two
\* changes that are not zero, one of them zero as no event came, and a change
\* received since is waiting
C30_Witness ==
    /\ pc = "poll"
    /\ Len(mouse.reported) = 3
    /\ <<0, 0>> \in Range(mouse.reported)
    /\ Len(mouse.deltas) = 4
    /\ Len(mouse.pending) = 1
    /\ mouse.pending[1] # <<0, 0>>
    /\ \E f \in 1..3, i \in 1..2 :
            /\ mouse.reported[f] = VecAdd(mouse.deltas[i], mouse.deltas[i + 1])
            /\ mouse.deltas[i] # <<0, 0>>
            /\ mouse.deltas[i + 1] # <<0, 0>>
            /\ mouse.reported[f] # mouse.deltas[i]

====
